---- MODULE Spec2Model ----
(***************************************************************************)
(* ipmi_exporter: the cadence-mode collection engine (flush, IpmiCollect,  *)
(* the sub-collectors and their parsers) and the scrape read path          *)
(* (collector.Collect) over the package-level snapshot cache `metrics`.    *)
(*                                                                         *)
(* Text (Go string / []byte) is a sequence of one-character strings, so    *)
(* that parsing and formatting are computed character by character.        *)
(* A float64 is a record [nan, mant, dec] standing for mant / 10^dec, kept  *)
(* normalised (no trailing fractional zero); nan marks math.NaN().         *)
(***************************************************************************)
EXTENDS Integers, Sequences, FiniteSets, TLC

\* ------------------------------------------------------------------ text

DigitChars == <<"0", "1", "2", "3", "4", "5", "6", "7", "8", "9">>

IsDigit(c) == \E i \in 1..10 : DigitChars[i] = c

DigitVal(c) == (CHOOSE i \in 1..10 : DigitChars[i] = c) - 1

AllDigits(s) == \A i \in 1..Len(s) : IsDigit(s[i])

RECURSIVE DigitsValue(_)
DigitsValue(s) ==
    IF s = <<>> THEN 0
    ELSE DigitsValue(SubSeq(s, 1, Len(s) - 1)) * 10 + DigitVal(s[Len(s)])

\* strconv.ParseInt(s, 10, 64): an optional sign, then one or more digits.
\* (Texts of the model are far shorter than 19 digits: no range error.)
ParseInt(s) ==
    LET signed == Len(s) > 0 /\ s[1] \in {"+", "-"}
        body   == IF signed THEN Tail(s) ELSE s
    IN  IF body = <<>> \/ ~AllDigits(body)
        THEN [err |-> TRUE, v |-> 0]
        ELSE [err |-> FALSE,
              v   |-> IF s[1] = "-" THEN 0 - DigitsValue(body) ELSE DigitsValue(body)]

RECURSIVE NatDigits(_)
NatDigits(n) ==
    IF n < 10 THEN <<DigitChars[n + 1]>>
    ELSE NatDigits(n \div 10) \o <<DigitChars[(n % 10) + 1]>>

\* strconv.FormatInt(n, 10)
FormatInt(n) == IF n < 0 THEN <<"-">> \o NatDigits(0 - n) ELSE NatDigits(n)

NaN == [nan |-> TRUE, mant |-> 0, dec |-> 0]

RECURSIVE Normalise(_, _)
Normalise(m, d) ==
    IF d > 0 /\ m % 10 = 0 THEN Normalise(m \div 10, d - 1)
    ELSE [nan |-> FALSE, mant |-> m, dec |-> d]

\* float64(n) of an int
Float(n) == [nan |-> FALSE, mant |-> n, dec |-> 0]

IndexOf(s, c) ==
    IF \E i \in 1..Len(s) : s[i] = c
    THEN (CHOOSE i \in 1..Len(s) : s[i] = c /\ \A j \in 1..(i - 1) : s[j] # c) - 1
    ELSE 0 - 1

\* strconv.ParseFloat(s, 64) on decimal notation: an optional sign, digits with
\* at most one point, at least one digit.  Go also accepts exponents, hex
\* floats, "inf" and "nan"; the texts of the model spell none of these.
ParseFloat(s) ==
    LET signed == Len(s) > 0 /\ s[1] \in {"+", "-"}
        negate(f) == IF s[1] = "-" THEN [f EXCEPT !.mant = 0 - f.mant] ELSE f
        conv(ip, fp) ==
            IF ~(AllDigits(ip) /\ AllDigits(fp) /\ Len(ip) + Len(fp) > 0)
            THEN [err |-> TRUE, v |-> Float(0)]
            ELSE [err |-> FALSE,
                  v   |-> negate(Normalise(DigitsValue(ip \o fp), Len(fp)))]
        cut(body, dot) ==
            conv(IF dot < 0 THEN body ELSE SubSeq(body, 1, dot),
                 IF dot < 0 THEN <<>> ELSE SubSeq(body, dot + 2, Len(body)))
        unsigned(body) == cut(body, IndexOf(body, "."))
    IN  unsigned(IF signed THEN Tail(s) ELSE s)

\* strings.Split(s, sep) for a one-character separator
RECURSIVE Split(_, _)
Split(s, sep) ==
    LET at(i) == IF i < 0 THEN <<s>>
                 ELSE <<SubSeq(s, 1, i)>> \o Split(SubSeq(s, i + 2, Len(s)), sep)
    IN  at(IndexOf(s, sep))

\* strings.Trim(s, cut) for a one-character cutset
RECURSIVE Trim(_, _)
Trim(s, c) ==
    IF s # <<>> /\ s[1] = c THEN Trim(Tail(s), c)
    ELSE IF s # <<>> /\ s[Len(s)] = c THEN Trim(SubSeq(s, 1, Len(s) - 1), c)
    ELSE s

\* strings.ReplaceAll(s, old, new) for a one-character old; new is a text
RECURSIVE ReplaceAll(_, _, _)
ReplaceAll(s, old, new) ==
    IF s = <<>> THEN <<>>
    ELSE (IF s[1] = old THEN new ELSE <<s[1]>>) \o ReplaceAll(Tail(s), old, new)

\* unicode.IsSpace on the characters of the model (also the regexp class \s)
IsSpace(c) == c \in {" ", "\t", "\r"}

\* len(strings.Fields(s)): the number of maximal runs of non-space characters
FieldsCount(s) ==
    Cardinality({i \in 1..Len(s) : ~IsSpace(s[i]) /\ (i = 1 \/ IsSpace(s[i - 1]))})

HasPrefix(s, p) == Len(s) >= Len(p) /\ SubSeq(s, 1, Len(p)) = p

\* the text left after dropping the leading characters that satisfy IsSpace
RECURSIVE SkipSpace(_)
SkipSpace(s) == IF s # <<>> /\ IsSpace(s[1]) THEN SkipSpace(Tail(s)) ELSE s

\* ------------------------------------------------------ metric families

\* prometheus.MustNewConstMetric(desc, GaugeValue, value, labels...)
MustNewConstMetric(desc, value, labels) ==
    [desc |-> desc, value |-> value, labels |-> labels]

\* the nil prometheus.Metric (the zero value of the interface)
NilMetric == [desc |-> "nil", value |-> NaN, labels |-> <<>>]

\* the label schema each Desc is created with
DescLabels ==
    [sensorStateDesc      |-> <<"id", "name", "type", "host">>,
     sensorValueDesc      |-> <<"id", "name", "type", "host">>,
     fanSpeedDesc         |-> <<"id", "name", "host">>,
     fanSpeedStateDesc    |-> <<"id", "name", "host">>,
     temperatureDesc      |-> <<"id", "name", "host">>,
     temperatureStateDesc |-> <<"id", "name", "host">>,
     voltageDesc          |-> <<"id", "name", "host">>,
     voltageStateDesc     |-> <<"id", "name", "host">>,
     currentDesc          |-> <<"id", "name", "host">>,
     currentStateDesc     |-> <<"id", "name", "host">>,
     powerDesc            |-> <<"id", "name", "host">>,
     powerStateDesc       |-> <<"id", "name", "host">>,
     powerConsumption     |-> <<"host">>,
     chassisPowerState    |-> <<"host">>,
     chassisDriveFault    |-> <<"host">>,
     chassisCoolingFault  |-> <<"host">>,
     upDesc               |-> <<"collector", "host">>,
     durationDesc         |-> <<"host">>]

\* ---------------------------------------------------------- the parsers

\* encoding/csv Reader.ReadAll on text without quote characters: one record
\* per non-empty line, fields separated by commas, every record with as many
\* fields as the first (FieldsPerRecord = 0); on an error no record is returned.
csvReadAll(impiOutput) ==
    LET check(recs) ==
            IF \E i \in 1..Len(recs) : Len(recs[i]) # Len(recs[1])
            THEN [records |-> <<>>, err |-> TRUE]
            ELSE [records |-> recs, err |-> FALSE]
        read(lines) == check([i \in 1..Len(lines) |-> Split(lines[i], ",")])
    IN  read(SelectSeq(Split(impiOutput, "\n"), LAMBDA l : l # <<>>))

\* the name normalisation of splitMonitoringOutput
sensorName(field) ==
    LET strip(name) ==
            IF IndexOf(name, "-") = 2
            THEN ReplaceAll(SubSeq(name, 4, Len(name)), "-", <<"_">>)
            ELSE name
    IN  strip(IF FieldsCount(field) > 1
              THEN ReplaceAll(ReplaceAll(field, " ", <<"_">>), "/", <<>>)
              ELSE field)

\* the loop of splitMonitoringOutput over the records still to read, with the
\* function's two locals result and err.  panic: an index out of range.
RECURSIVE splitLoop(_, _, _)
splitLoop(records, result, err) ==
    IF records = <<>> THEN [panic |-> FALSE, result |-> result, err |-> err]
    ELSE
      LET parsed(line, id, f) ==
              IF f.err THEN [panic |-> FALSE, result |-> result, err |-> TRUE]
              ELSE IF Len(line) < 7
                   THEN [panic |-> TRUE, result |-> result, err |-> FALSE]
              ELSE splitLoop(Tail(records),
                             Append(result,
                                    [ID    |-> id.v,
                                     Name  |-> sensorName(line[2]),
                                     Type  |-> line[3],
                                     State |-> line[4],
                                     Value |-> f.v,
                                     Unit  |-> line[6],
                                     Event |-> Trim(line[7], "'")]),
                             FALSE)
          value(line) ==
              IF line[5] # <<"N", "/", "A">>
              THEN ParseFloat(line[5])
              ELSE [err |-> FALSE, v |-> NaN]
          row(line, id) ==
              IF id.err THEN splitLoop(Tail(records), result, TRUE)
              ELSE IF Len(line) < 5
                   THEN [panic |-> TRUE, result |-> result, err |-> FALSE]
              ELSE parsed(line, id, value(line))
          fields(line) == row(line, ParseInt(line[1]))
          trimmed(raw) == fields([i \in 1..Len(raw) |-> Trim(raw[i], " ")])
      IN  trimmed(Split(Head(records)[1], "|"))

splitMonitoringOutput(impiOutput) ==
    LET loop(r) == splitLoop(r.records, <<>>, r.err)
    IN  loop(csvReadAll(impiOutput))

\* the compiled patterns: `^<label>\s*:\s*(?P<value>[0-9.]*)\s*Watts.*` when
\* watts, `^<label>\s*:\s(?P<value>.*)` otherwise
ipmiDCMICurrentPowerRegex ==
    [label |-> <<"C","u","r","r","e","n","t"," ","P","o","w","e","r">>, watts |-> TRUE]

ipmiChassisPowerRegex ==
    [label |-> <<"S","y","s","t","e","m"," ","P","o","w","e","r">>, watts |-> FALSE]

ipmiChassisDriveRegex ==
    [label |-> <<"D","r","i","v","e"," ","F","a","u","l","t">>, watts |-> FALSE]

ipmiChassisCollingRegex ==
    [label |-> <<"C","o","o","l","i","n","g","/","f","a","n"," ","f","a","u","l","t">>,
     watts |-> FALSE]

\* the longest prefix of s made of the characters of [0-9.]
RECURSIVE NumPrefix(_)
NumPrefix(s) ==
    IF s # <<>> /\ (IsDigit(s[1]) \/ s[1] = ".")
    THEN <<s[1]>> \o NumPrefix(Tail(s))
    ELSE <<>>

\* regex.FindStringSubmatch(line): whether the line matches and the text of
\* the group named value
FindStringSubmatch(regex, line) ==
    LET no == [match |-> FALSE, value |-> <<>>]
        unit(r3, val) ==
            IF HasPrefix(SkipSpace(SubSeq(r3, Len(val) + 1, Len(r3))),
                         <<"W","a","t","t","s">>)
            THEN [match |-> TRUE, value |-> val]
            ELSE no
        number(r3) == unit(r3, NumPrefix(r3))
        colon(r1) ==
            IF r1 = <<>> \/ r1[1] # ":" THEN no
            ELSE IF regex.watts THEN number(SkipSpace(Tail(r1)))
            ELSE IF Len(r1) >= 2 /\ IsSpace(r1[2])
                 THEN [match |-> TRUE, value |-> SubSeq(r1, 3, Len(r1))]
                 ELSE no
    IN  IF ~HasPrefix(line, regex.label) THEN no
        ELSE colon(SkipSpace(SubSeq(line, Len(regex.label) + 1, Len(line))))

\* getValue going on to the last matching line
getValueLast(ipmiOutput, regex) ==
    LET last(hits) == CHOOSE i \in hits : \A j \in hits : i >= j
        pick(lines, hits) ==
            IF hits = {} THEN [err |-> TRUE, value |-> <<>>]
            ELSE [err   |-> FALSE,
                  value |-> FindStringSubmatch(regex, lines[last(hits)]).value]
        scan(lines) ==
            pick(lines, {i \in 1..Len(lines) : FindStringSubmatch(regex, lines[i]).match})
    IN  scan(Split(ipmiOutput, "\n"))

getValue(ipmiOutput, regex) ==
    LET first(hits) == CHOOSE i \in hits : \A j \in hits : i <= j
        pick(lines, hits) ==
            IF hits = {} THEN [err |-> TRUE, value |-> <<>>]
            ELSE [err   |-> FALSE,
                  value |-> FindStringSubmatch(regex, lines[first(hits)]).value]
        scan(lines) ==
            pick(lines, {i \in 1..Len(lines) : FindStringSubmatch(regex, lines[i]).match})
    IN  scan(Split(ipmiOutput, "\n"))

getCurrentPowerConsumption(ipmiOutput) ==
    LET conv(r) == IF r.err THEN [err |-> TRUE, v |-> Float(0 - 1)]
                   ELSE ParseFloat(r.value)
    IN  conv(getValue(ipmiOutput, ipmiDCMICurrentPowerRegex))

\* getChassis with on as its only word for 1
getChassisOnOnly(ipmiOutput, reg) ==
    LET conv(r) ==
            IF r.err THEN [err |-> TRUE, v |-> Float(0 - 1)]
            ELSE IF r.value = <<"o","n">>
            THEN [err |-> FALSE, v |-> Float(1)]
            ELSE [err |-> FALSE, v |-> Float(0)]
    IN  conv(getValue(ipmiOutput, reg))

getChassis(ipmiOutput, reg) ==
    LET conv(r) ==
            IF r.err THEN [err |-> TRUE, v |-> Float(0 - 1)]
            ELSE IF r.value = <<"o","n">> \/ r.value = <<"f","a","l","s","e">>
            THEN [err |-> FALSE, v |-> Float(1)]
            ELSE [err |-> FALSE, v |-> Float(0)]
    IN  conv(getValue(ipmiOutput, reg))

\* ------------------------------------------------- the sub-collectors

VARIABLES
    config       \* the package-level Config: Global.Collector and Targets

\* the collector names IpmiCollect switches on
ipmimonitoring == <<"i", "p", "m", "i", "m", "o", "n", "i", "t", "o", "r", "i", "n", "g">>

ipmi_dcmi == <<"i", "p", "m", "i", "-", "d", "c", "m", "i">>

ipmi_chassis == <<"i", "p", "m", "i", "-", "c", "h", "a", "s", "s", "i", "s">>

\* the switch on data.State with 0 as its default
sensorStateDefaultZero(State) ==
    CASE State = <<"N", "o", "m", "i", "n", "a", "l">> -> Float(0)
      [] State = <<"W", "a", "r", "n", "i", "n", "g">> -> Float(1)
      [] State = <<"C", "r", "i", "t", "i", "c", "a", "l">> -> Float(2)
      [] State = <<"N", "/", "A">> -> NaN
      [] OTHER -> Float(0)

\* the severity switch of collectMonitoring on data.State
sensorState(State) ==
    CASE State = <<"N", "o", "m", "i", "n", "a", "l">> -> Float(0)
      [] State = <<"W", "a", "r", "n", "i", "n", "g">> -> Float(1)
      [] State = <<"C", "r", "i", "t", "i", "c", "a", "l">> -> Float(2)
      [] State = <<"N", "/", "A">> -> NaN
      [] OTHER -> NaN

\* whether collectMonitoring logs "Unknown sensor state" for data.State
unknownState(State) ==
    State \notin {<<"N", "o", "m", "i", "n", "a", "l">>, <<"W", "a", "r", "n", "i", "n", "g">>, <<"C", "r", "i", "t", "i", "c", "a", "l">>, <<"N", "/", "A">>}

collectTypedSensor(desc, stateDesc, state, data, target) ==
    << MustNewConstMetric(desc, data.Value,
                          <<FormatInt(data.ID), data.Name, target.Host>>),
       MustNewConstMetric(stateDesc, state,
                          <<FormatInt(data.ID), data.Name, target.Host>>) >>

\* collectGenericSensor labelling as collectTypedSensor does
collectGenericSensorNoType(state, data, target) ==
    << MustNewConstMetric("sensorValueDesc", data.Value,
                          <<FormatInt(data.ID), data.Name, target.Host>>),
       MustNewConstMetric("sensorStateDesc", state,
                          <<FormatInt(data.ID), data.Name, target.Host>>) >>

collectGenericSensor(state, data, target) ==
    << MustNewConstMetric("sensorValueDesc", data.Value,
                          <<FormatInt(data.ID), data.Name, data.Type, target.Host>>),
       MustNewConstMetric("sensorStateDesc", state,
                          <<FormatInt(data.ID), data.Name, data.Type, target.Host>>) >>

\* one iteration of the loop of collectMonitoring over results: the metrics
\* appended for one sensorData
sensorMetrics(data, target) ==
    LET state == sensorState(data.State)
    IN  CASE data.Unit = <<"R", "P", "M">> ->
               collectTypedSensor("fanSpeedDesc", "fanSpeedStateDesc", state, data, target)
          [] data.Unit = <<"C">> ->
               collectTypedSensor("temperatureDesc", "temperatureStateDesc", state, data, target)
          [] data.Unit = <<"A">> ->
               collectTypedSensor("currentDesc", "currentStateDesc", state, data, target)
          [] data.Unit = <<"V">> ->
               collectTypedSensor("voltageDesc", "voltageStateDesc", state, data, target)
          [] data.Unit = <<"W">> ->
               collectTypedSensor("powerDesc", "powerStateDesc", state, data, target)
          [] OTHER -> collectGenericSensor(state, data, target)

RECURSIVE monitorLoop(_, _)
monitorLoop(results, target) ==
    IF results = <<>> THEN <<>>
    ELSE sensorMetrics(Head(results), target) \o monitorLoop(Tail(results), target)

\* collectMonitoring classifying what was parsed before a parse error
collectMonitoringKeep(target, cmd) ==
    IF cmd.err THEN [panic |-> FALSE, up |-> 0, metrics |-> <<>>]
    ELSE
      LET build(r) ==
              IF r.panic THEN [panic |-> TRUE, up |-> 0, metrics |-> <<>>]
              ELSE [panic |-> FALSE, up |-> IF r.err THEN 0 ELSE 1,
                    metrics |-> monitorLoop(r.result, target)]
      IN  build(splitMonitoringOutput(cmd.out))

\* cmd is what ipmiOutput returned: [err, out].  A sub-collector returns
\* (up, error, metrics); panic marks a run-time panic inside it.
collectMonitoring(target, cmd) ==
    IF cmd.err THEN [panic |-> FALSE, up |-> 0, metrics |-> <<>>]
    ELSE
      LET build(r) ==
              IF r.panic THEN [panic |-> TRUE, up |-> 0, metrics |-> <<>>]
              ELSE IF r.err THEN [panic |-> FALSE, up |-> 0, metrics |-> <<>>]
              ELSE [panic |-> FALSE, up |-> 1, metrics |-> monitorLoop(r.result, target)]
      IN  build(splitMonitoringOutput(cmd.out))

\* collectDCMI returns one Metric, nil on either failure
collectDCMI(target, cmd) ==
    IF cmd.err THEN [panic |-> FALSE, up |-> 0, metrics |-> <<NilMetric>>]
    ELSE
      LET build(p) ==
              IF p.err THEN [panic |-> FALSE, up |-> 0, metrics |-> <<NilMetric>>]
              ELSE [panic |-> FALSE, up |-> 1,
                    metrics |-> <<MustNewConstMetric("powerConsumption", p.v,
                                                     <<target.Host>>)>>]
      IN  build(getCurrentPowerConsumption(cmd.out))

\* collectChassisState returning nothing whenever it fails
collectChassisStateNil(target, cmd) ==
    IF cmd.err THEN [panic |-> FALSE, up |-> 0, metrics |-> <<>>]
    ELSE
      LET build(pw, dr, co) ==
              IF pw.err \/ dr.err \/ co.err
              THEN [panic |-> FALSE, up |-> 0, metrics |-> <<>>]
              ELSE [panic |-> FALSE, up |-> 1,
                    metrics |->
                       <<MustNewConstMetric("chassisPowerState", pw.v, <<target.Host>>),
                         MustNewConstMetric("chassisDriveFault", dr.v, <<target.Host>>),
                         MustNewConstMetric("chassisCoolingFault", co.v, <<target.Host>>)>>]
      IN  build(getChassis(cmd.out, ipmiChassisPowerRegex),
                getChassis(cmd.out, ipmiChassisDriveRegex),
                getChassis(cmd.out, ipmiChassisCollingRegex))

collectChassisState(target, cmd) ==
    IF cmd.err THEN [panic |-> FALSE, up |-> 0, metrics |-> <<>>]
    ELSE
      LET m1(pw) == <<MustNewConstMetric("chassisPowerState", pw.v, <<target.Host>>)>>
          m2(pw, dr) ==
              Append(m1(pw),
                     MustNewConstMetric("chassisDriveFault", dr.v, <<target.Host>>))
          m3(pw, dr, co) ==
              Append(m2(pw, dr),
                     MustNewConstMetric("chassisCoolingFault", co.v, <<target.Host>>))
          build(pw, dr, co) ==
              IF pw.err THEN [panic |-> FALSE, up |-> 0, metrics |-> <<>>]
              ELSE IF dr.err THEN [panic |-> FALSE, up |-> 0, metrics |-> m1(pw)]
              ELSE IF co.err THEN [panic |-> FALSE, up |-> 0, metrics |-> m2(pw, dr)]
              ELSE [panic |-> FALSE, up |-> 1, metrics |-> m3(pw, dr, co)]
      IN  build(getChassis(cmd.out, ipmiChassisPowerRegex),
                getChassis(cmd.out, ipmiChassisDriveRegex),
                getChassis(cmd.out, ipmiChassisCollingRegex))

\* markCollectorUp with the two label values in the wrong order
markCollectorUpSwapped(name, up, target) ==
    MustNewConstMetric("upDesc", Float(up), <<target.Host, name>>)

markCollectorUp(name, up, target) ==
    MustNewConstMetric("upDesc", Float(up), <<name, target.Host>>)

\* the switch of IpmiCollect on one entry of config.Global.Collector; an
\* entry it does not name runs nothing and leaves up at 0
runCollector(collector, target, cmd) ==
    CASE collector = ipmimonitoring -> collectMonitoring(target, cmd)
      [] collector = ipmi_dcmi      -> collectDCMI(target, cmd)
      [] collector = ipmi_chassis   -> collectChassisState(target, cmd)
      [] OTHER -> [panic |-> FALSE, up |-> 0, metrics |-> <<>>]

\* the loop of IpmiCollect leaving at the first sub-collector that reports up = 0
RECURSIVE collectLoopAbort(_, _, _, _)
collectLoopAbort(target, cmds, k, ipmiMetrics) ==
    IF k > Len(config.Global.Collector)
    THEN [panic |-> FALSE, metrics |-> ipmiMetrics]
    ELSE
      LET entry(collector, r) ==
              IF r.panic THEN [panic |-> TRUE, metrics |-> ipmiMetrics]
              ELSE IF r.up = 0
              THEN [panic |-> FALSE,
                    metrics |-> Append(ipmiMetrics \o r.metrics,
                                       markCollectorUp(collector, r.up, target))]
              ELSE collectLoopAbort(target, cmds, k + 1,
                                    Append(ipmiMetrics \o r.metrics,
                                           markCollectorUp(collector, r.up, target)))
      IN  entry(config.Global.Collector[k],
                runCollector(config.Global.Collector[k], target, cmds[k]))

\* the loop of IpmiCollect that puts what a later entry gives before what the
\* entries before it gave
RECURSIVE collectLoopPrepend(_, _, _, _)
collectLoopPrepend(target, cmds, k, ipmiMetrics) ==
    IF k > Len(config.Global.Collector)
    THEN [panic |-> FALSE, metrics |-> ipmiMetrics]
    ELSE
      LET entry(collector, r) ==
              IF r.panic THEN [panic |-> TRUE, metrics |-> ipmiMetrics]
              ELSE collectLoopPrepend(target, cmds, k + 1,
                                      <<Head(ipmiMetrics)>> \o
                                      Append(r.metrics,
                                             markCollectorUp(collector, r.up, target))
                                      \o Tail(ipmiMetrics))
      IN  entry(config.Global.Collector[k],
                runCollector(config.Global.Collector[k], target, cmds[k]))

\* the loop of IpmiCollect from entry k of config.Global.Collector on;
\* cmds[k] is what the command of entry k returns
RECURSIVE collectLoop(_, _, _, _)
collectLoop(target, cmds, k, ipmiMetrics) ==
    IF k > Len(config.Global.Collector)
    THEN [panic |-> FALSE, metrics |-> ipmiMetrics]
    ELSE
      LET entry(collector, r) ==
              IF r.panic THEN [panic |-> TRUE, metrics |-> ipmiMetrics]
              ELSE collectLoop(target, cmds, k + 1,
                               Append(ipmiMetrics \o r.metrics,
                                      markCollectorUp(collector, r.up, target)))
      IN  entry(config.Global.Collector[k],
                runCollector(config.Global.Collector[k], target, cmds[k]))

\* duration is time.Since(start) taken right after start := time.Now(): the
\* time between two adjacent clock readings
IpmiCollect(target, cmds) ==
    LET duration == Float(0)
        durationMetrics == MustNewConstMetric("durationDesc", duration, <<target.Host>>)
    IN  collectLoop(target, cmds, 1, <<durationMetrics>>)


\* ------------------------------------------------------ the environment

\* the bounds of the model
MaxTargets == 2

MaxCycles == 2

\* at most this many worker goroutines are started in one run
MaxGoroutines == 2

MaxReaders == 1

MaxCollectors == 2

\* the handlers of the reload endpoint that run at a time
MaxPosts == 2

Hosts == <<<<"h", "1">>, <<"h", "2">>, <<"h", "3">>>>

\* what ipmiOutput returns when the command cannot be run or exits non-zero
CmdFail == [err |-> TRUE, out |-> <<>>]

CmdOut(text) == [err |-> FALSE, out |-> text]

\* sample outputs of ipmimonitoring
MonFan ==
    <<"I", "D", " ", "|", " ", "N", "a", "m", "e", "\n", "7", " ", "|", " ", "F",
      "a", "n", " ", "1", " ", "|", " ", "F", "a", "n", " ", "|", " ", "N", "o",
      "m", "i", "n", "a", "l", " ", "|", " ", "3", "2", "0", "0", ".", "0", "0",
      " ", "|", " ", "R", "P", "M", " ", "|", " ", "'", "O", "K", "'", "\n">>

MonTwo ==
    <<"7", " ", "|", " ", "F", "a", "n", " ", "1", " ", "|", " ", "F", "a", "n",
      " ", "|", " ", "W", "a", "r", "n", "i", "n", "g", " ", "|", " ", "3", "2",
      "0", "0", ".", "0", "0", " ", "|", " ", "R", "P", "M", " ", "|", " ", "'",
      "O", "K", "'", "\n", "1", "2", " ", "|", " ", "0", "1", "-", "I", "n", "l",
      "e", "t", " ", "|", " ", "T", "e", "m", "p", " ", "|", " ", "O", "d", "d",
      " ", "|", " ", "N", "/", "A", " ", "|", " ", "N", "/", "A", " ", "|", " ",
      "'", "x", "'", "\n">>

MonBadValue ==
    <<"7", " ", "|", " ", "F", "a", "n", " ", "1", " ", "|", " ", "F", "a", "n",
      " ", "|", " ", "N", "o", "m", "i", "n", "a", "l", " ", "|", " ", "3", "2",
      "0", "0", ".", "0", "0", " ", "|", " ", "R", "P", "M", " ", "|", " ", "'",
      "O", "K", "'", "\n", "8", " ", "|", " ", "F", "a", "n", " ", "2", " ", "|",
      " ", "F", "a", "n", " ", "|", " ", "N", "o", "m", "i", "n", "a", "l", " ",
      "|", " ", "3", "x", " ", "|", " ", "R", "P", "M", " ", "|", " ", "'", "O",
      "K", "'", "\n">>

MonFooter ==
    <<"7", " ", "|", " ", "F", "a", "n", " ", "1", " ", "|", " ", "F", "a", "n",
      " ", "|", " ", "N", "o", "m", "i", "n", "a", "l", " ", "|", " ", "3", "2",
      "0", "0", ".", "0", "0", " ", "|", " ", "R", "P", "M", " ", "|", " ", "'",
      "O", "K", "'", "\n", "e", "n", "d", "\n">>

MonShortRow ==
    <<"7", " ", "|", " ", "F", "a", "n", " ", "1", " ", "|", " ", "F", "a", "n",
      "\n">>

\* sample outputs of ipmi-dcmi
DcmiGood ==
    <<"C", "u", "r", "r", "e", "n", "t", " ", "P", "o", "w", "e", "r", " ", " ",
      ":", " ", "1", "4", "5", " ", "W", "a", "t", "t", "s", "\n", "M", "i", "n",
      "i", "m", "u", "m", " ", "P", "o", "w", "e", "r", " ", ":", " ", "2", " ",
      "W", "a", "t", "t", "s", "\n">>

DcmiNoMatch ==
    <<"P", "o", "w", "e", "r", " ", "M", "e", "a", "s", "u", "r", "e", "m", "e",
      "n", "t", " ", ":", " ", "N", "o", "t", " ", "A", "v", "a", "i", "l", "a",
      "b", "l", "e", "\n">>

DcmiNoNumber ==
    <<"C", "u", "r", "r", "e", "n", "t", " ", "P", "o", "w", "e", "r", " ", ":",
      " ", "W", "a", "t", "t", "s", "\n">>

\* sample outputs of ipmi-chassis
ChassisGood ==
    <<"S", "y", "s", "t", "e", "m", " ", "P", "o", "w", "e", "r", " ", ":", " ",
      "o", "n", "\n", "D", "r", "i", "v", "e", " ", "F", "a", "u", "l", "t", " ",
      ":", " ", "f", "a", "l", "s", "e", "\n", "C", "o", "o", "l", "i", "n", "g",
      "/", "f", "a", "n", " ", "f", "a", "u", "l", "t", " ", ":", " ", "f", "a",
      "l", "s", "e", "\n">>

ChassisOff ==
    <<"S", "y", "s", "t", "e", "m", " ", "P", "o", "w", "e", "r", " ", ":", " ",
      "o", "f", "f", "\n", "D", "r", "i", "v", "e", " ", "F", "a", "u", "l", "t",
      " ", ":", " ", "t", "r", "u", "e", "\n", "C", "o", "o", "l", "i", "n", "g",
      "/", "f", "a", "n", " ", "f", "a", "u", "l", "t", " ", ":", " ", "f", "a",
      "l", "s", "e", "\n">>

ChassisNoPower ==
    <<"D", "r", "i", "v", "e", " ", "F", "a", "u", "l", "t", " ", ":", " ", "f",
      "a", "l", "s", "e", "\n", "C", "o", "o", "l", "i", "n", "g", "/", "f", "a",
      "n", " ", "f", "a", "u", "l", "t", " ", ":", " ", "f", "a", "l", "s", "e",
      "\n">>

ChassisNoDrive ==
    <<"S", "y", "s", "t", "e", "m", " ", "P", "o", "w", "e", "r", " ", ":", " ",
      "o", "n", "\n", "C", "o", "o", "l", "i", "n", "g", "/", "f", "a", "n", " ",
      "f", "a", "u", "l", "t", " ", ":", " ", "f", "a", "l", "s", "e", "\n">>

ChassisNoCooling ==
    <<"S", "y", "s", "t", "e", "m", " ", "P", "o", "w", "e", "r", " ", ":", " ",
      "o", "n", "\n", "D", "r", "i", "v", "e", " ", "F", "a", "u", "l", "t", " ",
      ":", " ", "f", "a", "l", "s", "e", "\n">>

\* a name of the collector list that IpmiCollect does not switch on
bogus == <<"s", "e", "l">>

CollectorNames == {ipmimonitoring, ipmi_dcmi, ipmi_chassis, bogus}

\* every result the command of one collector entry may have
CmdResults(collector) ==
    CASE collector = ipmimonitoring ->
           {CmdFail} \cup {CmdOut(o) : o \in {MonFan, MonTwo, MonBadValue, MonFooter,
                                               MonShortRow, <<>>}}
      [] collector = ipmi_dcmi ->
           {CmdFail} \cup {CmdOut(o) : o \in {DcmiGood, DcmiNoMatch, DcmiNoNumber}}
      [] collector = ipmi_chassis ->
           {CmdFail} \cup {CmdOut(o) : o \in {ChassisGood, ChassisOff, ChassisNoPower,
                                               ChassisNoDrive, ChassisNoCooling}}
      [] OTHER -> {CmdFail}

\* the results the commands have in the runs of the cadence engine
CadenceResults(collector) ==
    CASE collector = ipmimonitoring -> {CmdOut(MonFan)}
      [] collector = ipmi_dcmi      -> {CmdFail, CmdOut(DcmiGood)}
      [] collector = ipmi_chassis   -> {CmdFail, CmdOut(ChassisNoDrive)}
      [] OTHER -> {CmdFail}

\* all sequences over S of length at most n
RECURSIVE SeqsUpTo(_, _)
SeqsUpTo(S, n) ==
    IF n = 0 THEN {<<>>}
    ELSE LET shorter == SeqsUpTo(S, n - 1)
         IN  shorter \cup {Append(q, x) : q \in shorter, x \in S}

Target(i) == [Host |-> Hosts[i]]


\* ------------------------------------------------- the cadence engine

VARIABLES
    flushSrc,       \* which flush is built: "deadline" (context + select, no lock
                    \* around the cache write) or "locked" (gRWLock around it)
    lockIs,         \* the mutex the identifier lock of Collect denotes
    metrics,        \* the package-level cache []prometheus.Metric
    mutex,          \* per mutex: the goroutines holding it and the writer waiting
    fired,          \* how many times cron has called flush
    fpc,            \* per flush call: where it stands
    targetMetrics,  \* per flush call: its local targetMetrics
    wg,             \* per flush call: the WaitGroup counter
    wpc,            \* per flush call and worker goroutine: where it stands
    wres,           \* ... what its IpmiCollect returned
    wtmp,           \* ... the targetMetrics it read for its append
    expired,        \* ... whether its context's deadline has passed
    timeoutLogged,  \* ... whether it logged the timeout
    rpc,            \* per scrape goroutine: where Collect stands
    rptr,           \* ... the backing array it read from metrics
    rlen,           \* ... the length it read from metrics
    emitted,        \* ... what it sent on ch
    committed,      \* history: the merged list of the last flush that finished its write
    allowed,        \* history, per scrape: the complete result sets of its window
    wrote,          \* history, per flush call: the cache right after its write
    call,           \* a single call of IpmiCollect: its arguments and result
    served,         \* per scrape handler of the on-demand build: its request
    parsed,         \* a single call of one parsing function: its argument and result
    boot,           \* how loading the configuration at startup ended
    reload          \* the reload goroutine and the handlers of the reload endpoint

vars == <<config, flushSrc, lockIs, metrics, mutex, fired, fpc, targetMetrics, wg,
          wpc, wres, wtmp, expired, timeoutLogged, rpc, rptr, rlen, emitted,
          committed, allowed, wrote, call, served, parsed,
          boot, reload>>

Cycles == 1..MaxCycles

Workers == 1..MaxTargets

Readers == 1..MaxReaders

NoCall == [phase |-> "none"]

\* the handlers of the reload endpoint
Posts == 1..MaxPosts

\* the reload goroutine waiting in its select, no request at the endpoint
NoReload ==
    [gpc  |-> "select", rc |-> 0, err |-> FALSE,
     post |-> [h \in Posts |-> [pc |-> "idle", method |-> "", status |-> 0,
                                n |-> 0, replies |-> 0, rerr |-> FALSE]]]

\* a handler of the on-demand build that serves no request
NoRequest == [pc |-> "idle", k |-> 0, read |-> <<>>, ch |-> <<>>]

\* a mutex nobody holds
Unlocked == [w |-> 0, held |-> FALSE, r |-> {}]

\* shorthand: the variables of the flush calls and of the scrapes
flushVars == <<fired, fpc, targetMetrics, wg, wpc, wres, wtmp, expired, timeoutLogged>>

scrapeVars == <<rpc, rptr, rlen, emitted>>

fixedVars == <<config, flushSrc, lockIs, call, served, parsed, boot, reload>>

\* the collector list the cadence engine is configured with
CadenceCollector == <<ipmimonitoring, ipmi_dcmi>>

\* the command results of one IpmiCollect call under the configured list
RECURSIVE CadenceCmdsOf(_)
CadenceCmdsOf(list) ==
    IF list = <<>> THEN {<<>>}
    ELSE {<<x>> \o rest : x \in CadenceResults(Head(list)), rest \in CadenceCmdsOf(Tail(list))}

CadenceCmds == CadenceCmdsOf(config.Global.Collector)

\* the state before cron or a scrape has run anything
InitEngine ==
    /\ metrics = <<>>
    /\ mutex = [m \in {"gRWLock", "lock"} |-> Unlocked]
    /\ fired = 0
    /\ fpc = [c \in Cycles |-> "idle"]
    /\ targetMetrics = [c \in Cycles |-> <<>>]
    /\ wg = [c \in Cycles |-> 0]
    /\ wpc = [c \in Cycles |-> [i \in Workers |-> "idle"]]
    /\ wres = [c \in Cycles |-> [i \in Workers |-> <<>>]]
    /\ wtmp = [c \in Cycles |-> [i \in Workers |-> <<>>]]
    /\ expired = [c \in Cycles |-> [i \in Workers |-> FALSE]]
    /\ timeoutLogged = [c \in Cycles |-> [i \in Workers |-> FALSE]]
    /\ rpc = [r \in Readers |-> "idle"]
    /\ rptr = [r \in Readers |-> <<>>]
    /\ rlen = [r \in Readers |-> 0]
    /\ emitted = [r \in Readers |-> <<>>]
    /\ committed = <<>>
    /\ allowed = [r \in Readers |-> {}]
    /\ wrote = [c \in Cycles |-> <<>>]
    /\ call = NoCall
    /\ served = [r \in Readers |-> NoRequest]
    /\ parsed = NoCall
    /\ reload = NoReload

\* the builds of the repository: the flush with the deadline, whose cache
\* write takes no lock, or the flush that takes gRWLock; Collect names `lock`,
\* which is gRWLock or a mutex of its own
InitBuild ==
    /\ flushSrc \in {"deadline", "locked"}
    /\ lockIs \in {"gRWLock", "lock"}
    /\ (flushSrc = "deadline" => lockIs = "lock")

\* the zero value of Config, which config holds until configor.Load fills it
ZeroConfig == [Global |-> [Collector |-> <<>>, Interval |-> <<>>], Targets |-> <<>>]

\* init of the cadence build: configor.Load fills config, or fails, is logged,
\* and the process goes on
Init ==
    /\ boot \in {"ok", "failed"}
    /\ IF boot = "ok"
       THEN \E n \in 0..MaxTargets :
               config = [Global  |-> [Collector |-> CadenceCollector,
                                      Interval  |-> <<"5">>],
                         Targets |-> [i \in 1..n |-> Target(i)]]
       ELSE config = ZeroConfig
    /\ InitBuild
    /\ InitEngine

\* ---- flush: the orchestrator

\* flush counting one unit more in wg.Add than it starts goroutines
cronFireAddExtra(c) ==
    /\ config.Global.Interval # <<>>
    /\ c = fired + 1
    /\ c * Len(config.Targets) <= MaxGoroutines
    /\ fired' = c
    /\ fpc' = [fpc EXCEPT ![c] = "wait"]
    /\ targetMetrics' = [targetMetrics EXCEPT ![c] = <<>>]
    /\ wg' = [wg EXCEPT ![c] = Len(config.Targets) + 1]
    /\ wpc' = [wpc EXCEPT ![c] =
                 [i \in Workers |-> IF i <= Len(config.Targets) THEN "collect" ELSE "idle"]]
    /\ UNCHANGED <<wres, wtmp, expired, timeoutLogged>>
    /\ UNCHANGED <<metrics, mutex, committed, allowed, wrote>>
    /\ UNCHANGED scrapeVars
    /\ UNCHANGED fixedVars

\* cron has taken flush by AddFunc only if the expression made of
\* config.Global.Interval parses, which it does not for the empty Interval.
\* cron calls flush (each call in a goroutine of its own, whether or not an
\* earlier call still runs): targetMetrics is nil, wg.Add(len(config.Targets)),
\* one goroutine is started per target
cronFire(c) ==
    /\ config.Global.Interval # <<>>
    /\ c = fired + 1
    /\ c * Len(config.Targets) <= MaxGoroutines
    /\ fired' = c
    /\ fpc' = [fpc EXCEPT ![c] = "wait"]
    /\ targetMetrics' = [targetMetrics EXCEPT ![c] = <<>>]
    /\ wg' = [wg EXCEPT ![c] = Len(config.Targets)]
    /\ wpc' = [wpc EXCEPT ![c] =
                 [i \in Workers |-> IF i <= Len(config.Targets) THEN "collect" ELSE "idle"]]
    /\ UNCHANGED <<wres, wtmp, expired, timeoutLogged>>
    /\ UNCHANGED <<metrics, mutex, committed, allowed, wrote>>
    /\ UNCHANGED scrapeVars
    /\ UNCHANGED fixedVars

\* IpmiCollect(config.Targets[i]) returns in worker i
workerCollect(c, i) ==
    /\ wpc[c][i] = "collect"
    /\ \E cmds \in CadenceCmds :
          LET returns(r) == /\ ~r.panic
                            /\ wres' = [wres EXCEPT ![c][i] = r.metrics]
          IN  returns(IpmiCollect(config.Targets[i], cmds))
    /\ wpc' = [wpc EXCEPT ![c][i] = "load"]
    /\ UNCHANGED <<fired, fpc, targetMetrics, wg, wtmp, expired, timeoutLogged>>
    /\ UNCHANGED <<metrics, mutex, committed, allowed, wrote>>
    /\ UNCHANGED scrapeVars
    /\ UNCHANGED fixedVars

\* a command started by IpmiCollect never returns (cmd.Run has no timeout)
workerHang(c, i) ==
    /\ wpc[c][i] = "collect"
    /\ wpc' = [wpc EXCEPT ![c][i] = "hung"]
    /\ UNCHANGED <<fired, fpc, targetMetrics, wg, wres, wtmp, expired, timeoutLogged>>
    /\ UNCHANGED <<metrics, mutex, committed, allowed, wrote>>
    /\ UNCHANGED scrapeVars
    /\ UNCHANGED fixedVars

\* targetMetrics = append(targetMetrics, ...): the read of the shared slice
workerLoad(c, i) ==
    /\ wpc[c][i] = "load"
    /\ wtmp' = [wtmp EXCEPT ![c][i] = targetMetrics[c]]
    /\ wpc' = [wpc EXCEPT ![c][i] = "store"]
    /\ UNCHANGED <<fired, fpc, targetMetrics, wg, wres, expired, timeoutLogged>>
    /\ UNCHANGED <<metrics, mutex, committed, allowed, wrote>>
    /\ UNCHANGED scrapeVars
    /\ UNCHANGED fixedVars

\* ... and the write back of the appended slice; in the locked flush wg.Done()
\* follows at once, in the deadline flush the select comes first
workerStore(c, i) ==
    /\ wpc[c][i] = "store"
    /\ targetMetrics' = [targetMetrics EXCEPT ![c] = wtmp[c][i] \o wres[c][i]]
    /\ wpc' = [wpc EXCEPT ![c][i] = IF flushSrc = "deadline" THEN "select" ELSE "done"]
    /\ wg' = [wg EXCEPT ![c] = IF flushSrc = "deadline" THEN @ ELSE @ - 1]
    /\ UNCHANGED <<fired, fpc, wres, wtmp, expired, timeoutLogged>>
    /\ UNCHANGED <<metrics, mutex, committed, allowed, wrote>>
    /\ UNCHANGED scrapeVars
    /\ UNCHANGED fixedVars

\* the deadline of the worker's context passes (time.Second * TimeOut after
\* the goroutine created it); the deferred cancel stops the timer at return.
\* Only the select reads it: a deadline that passes between the return of
\* IpmiCollect and the select has the effect of one that passed just before
\* the return, so it is taken to pass while the call runs.
ctxExpire(c, i) ==
    /\ flushSrc = "deadline"
    /\ wpc[c][i] \in {"collect", "hung"}
    /\ ~expired[c][i]
    /\ expired' = [expired EXCEPT ![c][i] = TRUE]
    /\ UNCHANGED <<fired, fpc, targetMetrics, wg, wpc, wres, wtmp, timeoutLogged>>
    /\ UNCHANGED <<metrics, mutex, committed, allowed, wrote>>
    /\ UNCHANGED scrapeVars
    /\ UNCHANGED fixedVars

\* select { case <-ctx.Done(): log.Error(...) default: log.Info(...) }; wg.Done()
workerSelect(c, i) ==
    /\ wpc[c][i] = "select"
    /\ timeoutLogged' = [timeoutLogged EXCEPT ![c][i] = expired[c][i]]
    /\ wg' = [wg EXCEPT ![c] = @ - 1]
    /\ wpc' = [wpc EXCEPT ![c][i] = "done"]
    /\ UNCHANGED <<fired, fpc, targetMetrics, wres, wtmp, expired>>
    /\ UNCHANGED <<metrics, mutex, committed, allowed, wrote>>
    /\ UNCHANGED scrapeVars
    /\ UNCHANGED fixedVars


\* wg.Wait() returns
flushWait(c) ==
    /\ fpc[c] = "wait"
    /\ wg[c] = 0
    /\ fpc' = [fpc EXCEPT ![c] = IF flushSrc = "locked" THEN "lock" ELSE "clear"]
    /\ UNCHANGED <<fired, targetMetrics, wg, wpc, wres, wtmp, expired, timeoutLogged>>
    /\ UNCHANGED <<metrics, mutex, committed, allowed, wrote>>
    /\ UNCHANGED scrapeVars
    /\ UNCHANGED fixedVars

\* sync.RWMutex.Lock: take the writers' mutex and announce the writer; the
\* lock is held at once when no reader is active
RWLock(m, c) == [m EXCEPT !.w = c, !.held = (m.r = {})]

\* sync.RWMutex.RLock succeeds only while no writer holds or awaits the lock
CanRLock(m) == m.w = 0

RWRLock(m, r) == [m EXCEPT !.r = @ \cup {r}]

\* an RUnlock that leaves the reader counted
RWRUnlockKept(m, r) == m

RWRUnlock(m, r) == [m EXCEPT !.r = @ \ {r}]

\* gRWLock.Lock() is called
flushLock(c) ==
    /\ fpc[c] = "lock"
    /\ mutex["gRWLock"].w = 0
    /\ mutex' = [mutex EXCEPT !["gRWLock"] = RWLock(@, c)]
    /\ fpc' = [fpc EXCEPT ![c] = "locking"]
    /\ UNCHANGED <<fired, targetMetrics, wg, wpc, wres, wtmp, expired, timeoutLogged>>
    /\ UNCHANGED <<metrics, committed, allowed, wrote>>
    /\ UNCHANGED scrapeVars
    /\ UNCHANGED fixedVars

\* gRWLock.Lock() returns: the active readers have left
flushLocked(c) ==
    /\ fpc[c] = "locking"
    /\ mutex["gRWLock"].w = c
    /\ mutex["gRWLock"].r = {}
    /\ mutex' = [mutex EXCEPT !["gRWLock"].held = TRUE]
    /\ fpc' = [fpc EXCEPT ![c] = "clear"]
    /\ UNCHANGED <<fired, targetMetrics, wg, wpc, wres, wtmp, expired, timeoutLogged>>
    /\ UNCHANGED <<metrics, committed, allowed, wrote>>
    /\ UNCHANGED scrapeVars
    /\ UNCHANGED fixedVars

\* the cache made with the length of the merged list instead of empty
flushClearMake(c) ==
    /\ fpc[c] = "clear"
    /\ metrics' = [k \in 1..Len(targetMetrics[c]) |-> NilMetric]
    /\ fpc' = [fpc EXCEPT ![c] = "append"]
    /\ UNCHANGED <<fired, targetMetrics, wg, wpc, wres, wtmp, expired, timeoutLogged>>
    /\ UNCHANGED <<mutex, committed, allowed, wrote>>
    /\ UNCHANGED scrapeVars
    /\ UNCHANGED fixedVars

\* metrics = []prometheus.Metric{}
flushClear(c) ==
    /\ fpc[c] = "clear"
    /\ metrics' = <<>>
    /\ fpc' = [fpc EXCEPT ![c] = "append"]
    /\ UNCHANGED <<fired, targetMetrics, wg, wpc, wres, wtmp, expired, timeoutLogged>>
    /\ UNCHANGED <<mutex, committed, allowed, wrote>>
    /\ UNCHANGED scrapeVars
    /\ UNCHANGED fixedVars

\* metrics = append(metrics, targetMetrics...)
flushAppend(c) ==
    /\ fpc[c] = "append"
    /\ metrics' = metrics \o targetMetrics[c]
    /\ fpc' = [fpc EXCEPT ![c] = IF flushSrc = "locked" THEN "unlock" ELSE "done"]
    /\ committed' = targetMetrics[c]
    /\ allowed' = [r \in Readers |->
                     IF rpc[r] = "idle" THEN allowed[r]
                     ELSE allowed[r] \cup {targetMetrics[c]}]
    /\ wrote' = [wrote EXCEPT ![c] = metrics']
    /\ UNCHANGED <<fired, targetMetrics, wg, wpc, wres, wtmp, expired, timeoutLogged>>
    /\ UNCHANGED mutex
    /\ UNCHANGED scrapeVars
    /\ UNCHANGED fixedVars

\* gRWLock.Unlock()
flushUnlock(c) ==
    /\ fpc[c] = "unlock"
    /\ mutex' = [mutex EXCEPT !["gRWLock"] = Unlocked]
    /\ fpc' = [fpc EXCEPT ![c] = "done"]
    /\ UNCHANGED <<fired, targetMetrics, wg, wpc, wres, wtmp, expired, timeoutLogged>>
    /\ UNCHANGED <<metrics, committed, allowed, wrote>>
    /\ UNCHANGED scrapeVars
    /\ UNCHANGED fixedVars

\* ---- collector.Collect: the scrape read

\* a scrape request reaches Collect, which calls lock.RLock()
scrapeStart(r) ==
    /\ rpc[r] = "idle"
    /\ rpc' = [rpc EXCEPT ![r] = "rlock"]
    /\ allowed' = [allowed EXCEPT ![r] = {committed}]
    /\ emitted' = [emitted EXCEPT ![r] = <<>>]
    /\ UNCHANGED <<rptr, rlen>>
    /\ UNCHANGED <<metrics, mutex, committed, wrote>>
    /\ UNCHANGED flushVars
    /\ UNCHANGED fixedVars

\* lock.RLock() returns
collectRLock(r) ==
    /\ rpc[r] = "rlock"
    /\ CanRLock(mutex[lockIs])
    /\ mutex' = [mutex EXCEPT ![lockIs] = RWRLock(@, r)]
    /\ rpc' = [rpc EXCEPT ![r] = "range"]
    /\ UNCHANGED <<rptr, rlen, emitted>>
    /\ UNCHANGED <<metrics, committed, allowed, wrote>>
    /\ UNCHANGED flushVars
    /\ UNCHANGED fixedVars

\* `range metrics` copies the slice header of the package variable, one word
\* at a time and in no fixed order: first one of array pointer and length ...
collectLoadFirst(r, word) ==
    /\ rpc[r] = "range"
    /\ \/ /\ word = "ptr"
          /\ rptr' = [rptr EXCEPT ![r] = metrics]
          /\ rpc' = [rpc EXCEPT ![r] = "rangeLen"]
          /\ UNCHANGED rlen
       \/ /\ word = "len"
          /\ rlen' = [rlen EXCEPT ![r] = Len(metrics)]
          /\ rpc' = [rpc EXCEPT ![r] = "rangePtr"]
          /\ UNCHANGED rptr
    /\ UNCHANGED emitted
    /\ UNCHANGED <<metrics, mutex, committed, allowed, wrote>>
    /\ UNCHANGED flushVars
    /\ UNCHANGED fixedVars

\* ... then the other
collectLoadSecond(r) ==
    /\ \/ /\ rpc[r] = "rangeLen"
          /\ rlen' = [rlen EXCEPT ![r] = Len(metrics)]
          /\ UNCHANGED rptr
       \/ /\ rpc[r] = "rangePtr"
          /\ rptr' = [rptr EXCEPT ![r] = metrics]
          /\ UNCHANGED rlen
    /\ rpc' = [rpc EXCEPT ![r] = "send"]
    /\ UNCHANGED emitted
    /\ UNCHANGED <<metrics, mutex, committed, allowed, wrote>>
    /\ UNCHANGED flushVars
    /\ UNCHANGED fixedVars

\* what a read beyond the end of the backing array yields
GarbageMetric == [desc |-> "garbage", value |-> NaN, labels |-> <<>>]

\* the elements the range loop visits: length many, from the array read
rangeOver(ptr, len) ==
    [k \in 1..len |-> IF k <= Len(ptr) THEN ptr[k] ELSE GarbageMetric]

\* for _, metric := range metrics { ch <- metric }
collectSend(r) ==
    /\ rpc[r] = "send"
    /\ emitted' = [emitted EXCEPT ![r] = rangeOver(rptr[r], rlen[r])]
    /\ rpc' = [rpc EXCEPT ![r] = "runlock"]
    /\ UNCHANGED <<rptr, rlen>>
    /\ UNCHANGED <<metrics, mutex, committed, allowed, wrote>>
    /\ UNCHANGED flushVars
    /\ UNCHANGED fixedVars

\* lock.RUnlock(), and Collect returns
collectRUnlock(r) ==
    /\ rpc[r] = "runlock"
    /\ mutex' = [mutex EXCEPT ![lockIs] = RWRUnlock(@, r)]
    /\ rpc' = [rpc EXCEPT ![r] = "idle"]
    /\ rptr' = [rptr EXCEPT ![r] = <<>>]
    /\ rlen' = [rlen EXCEPT ![r] = 0]
    /\ UNCHANGED emitted
    /\ UNCHANGED <<metrics, committed, allowed, wrote>>
    /\ UNCHANGED flushVars
    /\ UNCHANGED fixedVars

Next ==
    \/ \E c \in Cycles : cronFire(c)
    \/ \E c \in Cycles, i \in Workers : workerCollect(c, i)
    \/ \E c \in Cycles, i \in Workers : workerHang(c, i)
    \/ \E c \in Cycles, i \in Workers : workerLoad(c, i)
    \/ \E c \in Cycles, i \in Workers : workerStore(c, i)
    \/ \E c \in Cycles, i \in Workers : ctxExpire(c, i)
    \/ \E c \in Cycles, i \in Workers : workerSelect(c, i)
    \/ \E c \in Cycles : flushWait(c)
    \/ \E c \in Cycles : flushLock(c)
    \/ \E c \in Cycles : flushLocked(c)
    \/ \E c \in Cycles : flushClear(c)
    \/ \E c \in Cycles : flushAppend(c)
    \/ \E c \in Cycles : flushUnlock(c)
    \/ \E r \in Readers : scrapeStart(r)
    \/ \E r \in Readers : collectRLock(r)
    \/ \E r \in Readers, word \in {"ptr", "len"} : collectLoadFirst(r, word)
    \/ \E r \in Readers : collectLoadSecond(r)
    \/ \E r \in Readers : collectSend(r)
    \/ \E r \in Readers : collectRUnlock(r)

Spec == Init /\ [][Next]_vars


\* ------------------------------------------- IpmiCollect, called alone

\* every combination of command results for the configured collector list
RECURSIVE AllCmdsOf(_)
AllCmdsOf(list) ==
    IF list = <<>> THEN {<<>>}
    ELSE {<<x>> \o rest : x \in CmdResults(Head(list)), rest \in AllCmdsOf(Tail(list))}

AllCmds == AllCmdsOf(config.Global.Collector)

InitCollect ==
    /\ \E q \in SeqsUpTo(CollectorNames, MaxCollectors), n \in 1..MaxTargets :
          config = [Global  |-> [Collector |-> q],
                    Targets |-> [i \in 1..n |-> Target(i)]]
    /\ flushSrc = "locked"
    /\ lockIs = "gRWLock"
    /\ boot = "ok"
    /\ InitEngine

\* IpmiCollect(target) runs, its commands answering cmds, and returns or panics
ipmiCollectCall(target) ==
    /\ call.phase = "none"
    /\ \E cmds \in AllCmds :
          LET ends(r) ==
                  call' = [phase  |-> IF r.panic THEN "panicked" ELSE "returned",
                           target |-> target,
                           cmds   |-> cmds,
                           ret    |-> r.metrics]
          IN  ends(IpmiCollect(target, cmds))
    /\ UNCHANGED <<config, flushSrc, lockIs, served, parsed, boot, reload>>
    /\ UNCHANGED <<metrics, mutex, committed, allowed, wrote>>
    /\ UNCHANGED flushVars
    /\ UNCHANGED scrapeVars

\* the caller has taken the result
ipmiCollectDone ==
    /\ call.phase = "returned"
    /\ call' = NoCall
    /\ UNCHANGED <<config, flushSrc, lockIs, served, parsed, boot, reload>>
    /\ UNCHANGED <<metrics, mutex, committed, allowed, wrote>>
    /\ UNCHANGED flushVars
    /\ UNCHANGED scrapeVars

NextCollect ==
    \/ \E i \in 1..Len(config.Targets) : ipmiCollectCall(config.Targets[i])
    \/ ipmiCollectDone

SpecCollect == InitCollect /\ [][NextCollect]_vars

\* ------------------------------------- properties of IpmiCollect's list

\* the indices of ms whose observation is of family desc
OfFamily(ms, desc) == {k \in 1..Len(ms) : ms[k].desc = desc}

\* C4: the list IpmiCollect returns holds exactly one scrape-duration
\* observation, labelled with the target host, and for each entry of the
\* configured collector list one availability observation labelled (collector
\* name, host) with value 0 or 1: as many observations carry a name as the list
\* has entries of that name (exactly one when the name is listed once), and no
\* other availability observation is in the list.
C4_DurationAndUpPerEntry ==
    call.phase = "returned" =>
      LET host == call.target.Host
          ret  == call.ret
          list == config.Global.Collector
      IN  /\ Cardinality(OfFamily(ret, "durationDesc")) = 1
          /\ \A k \in OfFamily(ret, "durationDesc") : ret[k].labels = <<host>>
          /\ \A n \in CollectorNames :
                Cardinality({k \in OfFamily(ret, "upDesc") : ret[k].labels = <<n, host>>})
                  = Cardinality({j \in 1..Len(list) : list[j] = n})
          /\ \A k \in OfFamily(ret, "upDesc") :
                /\ ret[k].value \in {Float(0), Float(1)}
                /\ \E j \in 1..Len(list) : ret[k].labels = <<list[j], host>>

\* IpmiCollect has returned for a list of two different collectors, the command
\* of one failed and that of the other succeeded
C4_Witness ==
    /\ call.phase = "returned"
    /\ Len(config.Global.Collector) = 2
    /\ config.Global.Collector[1] # config.Global.Collector[2]
    /\ \E k \in OfFamily(call.ret, "upDesc") : call.ret[k].value = Float(0)
    /\ \E k \in OfFamily(call.ret, "upDesc") : call.ret[k].value = Float(1)
    /\ \E k \in 1..2 : call.cmds[k].err

\* the index of the first availability observation of ms, 0 when it has none
FirstUp(ms) ==
    IF OfFamily(ms, "upDesc") = {} THEN 0
    ELSE CHOOSE k \in OfFamily(ms, "upDesc") : \A j \in OfFamily(ms, "upDesc") : k <= j

\* ms cut after each availability observation: the part of each collector entry
RECURSIVE Segments(_)
Segments(ms) ==
    IF ms = <<>> THEN <<>>
    ELSE LET cut(n) == IF n = 0 THEN <<ms>>
                       ELSE <<SubSeq(ms, 1, n)>> \o Segments(SubSeq(ms, n + 1, Len(ms)))
         IN  cut(FirstUp(ms))

\* the three failures of a sub-collector: the command fails, its output does
\* not parse, the labelled value is not found
Failed(collector, cmd) ==
    \/ cmd.err
    \/ CASE collector = ipmimonitoring -> splitMonitoringOutput(cmd.out).err
         [] collector = ipmi_dcmi      -> getCurrentPowerConsumption(cmd.out).err
         [] collector = ipmi_chassis   ->
              \E reg \in {ipmiChassisPowerRegex, ipmiChassisDriveRegex,
                          ipmiChassisCollingRegex} : getChassis(cmd.out, reg).err
         [] OTHER -> TRUE

C1_ReadSeesOneWholeCycle ==
    \A r \in Readers : rpc[r] = "runlock" => emitted[r] \in allowed[r]

\* how many entries of ms equal x
Occurrences(ms, x) == Cardinality({k \in 1..Len(ms) : ms[k] = x})

\* the lists the workers 1..n of flush call c got from IpmiCollect, one after another
RECURSIVE Returned(_, _)
Returned(c, n) == IF n = 0 THEN <<>> ELSE Returned(c, n - 1) \o wres[c][n]

\* C2: once wg.Wait() has returned in a flush call its targetMetrics holds every
\* observation IpmiCollect returned to its workers, each as often as it was
\* returned: no append is lost or overwritten.
C2_NoAppendLost ==
    \A c \in Cycles :
       fpc[c] \notin {"idle", "wait"} =>
          LET all == Returned(c, Len(config.Targets))
          IN  /\ Len(targetMetrics[c]) = Len(all)
              /\ \A k \in 1..Len(all) :
                    Occurrences(targetMetrics[c], all[k]) = Occurrences(all, all[k])

\* an observation of one of the metric families, with one value per label
WellFormed(m) ==
    /\ m.desc \in DOMAIN DescLabels
    /\ Len(m.labels) = Len(DescLabels[m.desc])

\* C3: in every state of the cache each observation it holds is well formed,
\* and a scrape read emits only well-formed observations.
C3_ScrapeEmitsWellFormed ==
    /\ \A k \in 1..Len(metrics) : WellFormed(metrics[k])
    /\ \A r \in Readers :
          rpc[r] = "runlock" => \A k \in 1..Len(emitted[r]) : WellFormed(emitted[r][k])

\* C6: a cycle is complete once every worker has finished or has its deadline
\* behind it: then wg.Wait() returns and the cache write can follow, also when
\* the command of a worker never returns.
C6_CompleteAtDeadline ==
    \A c \in Cycles :
       ( /\ fpc[c] = "wait"
         /\ \A i \in 1..Len(config.Targets) :
               wpc[c][i] = "done" \/ (wpc[c][i] = "hung" /\ expired[c][i]) )
       => ENABLED flushWait(c)

\* C7: a worker whose deadline has passed and that will take no further step has
\* logged the timeout; a timeout is logged only by a worker whose deadline has
\* passed; and what a finished worker collected is in the merged list of its
\* cycle once that list is written.
C7_TimeoutLoggedAndMerged ==
    \A c \in Cycles, i \in 1..Len(config.Targets) :
       /\ timeoutLogged[c][i] => expired[c][i]
       /\ (expired[c][i] /\ wpc[c][i] \in {"hung", "done"}) => timeoutLogged[c][i]
       /\ (fpc[c] = "done" /\ timeoutLogged[c][i]) =>
             \A k \in 1..Len(wres[c][i]) :
                Occurrences(wrote[c], wres[c][i][k]) >= 1

\* C8: right after the write of a flush call the cache holds exactly the merged
\* list of that call, whether or not another call is writing too.
C8_WriteReplacesWhole ==
    \A c \in Cycles : fpc[c] \in {"unlock", "done"} => wrote[c] = targetMetrics[c]

\* no flush call has written the cache yet
BeforeFirstWrite == \A c \in Cycles : fpc[c] \notin {"unlock", "done"}

\* C10: until the first flush call has written it the cache is empty, and a
\* scrape read emits nothing.
C10_EmptyBeforeFirstWrite ==
    BeforeFirstWrite =>
       /\ metrics = <<>>
       /\ \A r \in Readers : emitted[r] = <<>>

\* a scrape read has emitted while the first flush call is between clearing
\* and filling the cache
C10_Witness ==
    /\ BeforeFirstWrite
    /\ \E r \in Readers : rpc[r] = "runlock"
    /\ \E c \in Cycles : fpc[c] = "append" /\ targetMetrics[c] # <<>>

\* ---------------------------------------------------- fair scheduling

\* The Go scheduler runs every goroutine that can take a step, and a
\* sync.RWMutex hands a released lock to the readers that wait for it before
\* the next writer.  When cron fires, when a scrape request arrives, whether a
\* command hangs and when a deadline passes are up to the environment.
Fairness ==
    /\ \A c \in Cycles, i \in Workers :
          /\ WF_vars(workerLoad(c, i))
          /\ WF_vars(workerStore(c, i))
          /\ WF_vars(workerSelect(c, i))
    /\ \A c \in Cycles :
          /\ WF_vars(flushWait(c))
          /\ WF_vars(flushLock(c))
          /\ WF_vars(flushLocked(c))
          /\ WF_vars(flushClear(c))
          /\ WF_vars(flushAppend(c))
          /\ WF_vars(flushUnlock(c))
    /\ \A r \in Readers :
          /\ SF_vars(collectRLock(r))
          /\ WF_vars(\E word \in {"ptr", "len"} : collectLoadFirst(r, word))
          /\ WF_vars(collectLoadSecond(r))
          /\ WF_vars(collectSend(r))
          /\ WF_vars(collectRUnlock(r))

FairSpec == Init /\ [][Next]_vars /\ Fairness

\* C9: under fair scheduling a scrape read that has started finishes and has
\* released its shared access, and a flush call that has come to its cache
\* write completes the write.
C9_ReadsFinishWritesHappen ==
    /\ \A r \in Readers :
          (rpc[r] # "idle") ~> (rpc[r] = "idle" /\ r \notin mutex[lockIs].r)
    /\ \A c \in Cycles :
          (fpc[c] \in {"lock", "locking", "clear", "append"})
             ~> (fpc[c] \in {"unlock", "done"})

\* a flush call waits in gRWLock.Lock() for a scrape read that holds the same
\* lock shared
C9_Witness ==
    /\ flushSrc = "locked"
    /\ lockIs = "gRWLock"
    /\ \E c \in Cycles : fpc[c] = "locking" /\ mutex["gRWLock"].r # {}

\* ------------------------------------------------ the empty target list

\* C11: with no target configured a flush call starts no worker, its wg.Wait()
\* can return at once, and its write leaves the cache empty.
C11_EmptyTargetList ==
    Len(config.Targets) = 0 =>
       /\ metrics = <<>>
       /\ \A c \in Cycles :
             /\ \A i \in Workers : wpc[c][i] = "idle"
             /\ fpc[c] = "wait" => ENABLED flushWait(c)
             /\ fpc[c] \in {"unlock", "done"} => wrote[c] = <<>>

\* a flush call has run to its end with no target configured
C11_Witness ==
    /\ Len(config.Targets) = 0
    /\ \E c \in Cycles : fpc[c] = "done"

\* --------------------------------------------- the on-demand build

\* the on-demand sub-collectors send on ch what the cadence ones append to
\* their result, but for collectDCMI, which sends nothing when it fails
collectMonitoringCh(target, cmd) == collectMonitoring(target, cmd)

collectDCMICh(target, cmd) ==
    IF cmd.err THEN [panic |-> FALSE, up |-> 0, metrics |-> <<>>]
    ELSE
      LET build(p) ==
              IF p.err THEN [panic |-> FALSE, up |-> 0, metrics |-> <<>>]
              ELSE [panic |-> FALSE, up |-> 1,
                    metrics |-> <<MustNewConstMetric("powerConsumption", p.v,
                                                     <<target.Host>>)>>]
      IN  build(getCurrentPowerConsumption(cmd.out))

collectChassisStateCh(target, cmd) == collectChassisState(target, cmd)

\* the loop of the on-demand IpmiCollect from entry k of
\* config.Global.Collector on; sent is what it has sent on ch so far
RECURSIVE collectLoopCh(_, _, _, _)
collectLoopCh(target, cmds, k, sent) ==
    IF k > Len(config.Global.Collector)
    THEN [panic |-> FALSE, metrics |-> sent]
    ELSE
      LET entry(collector, r) ==
              IF r.panic THEN [panic |-> TRUE, metrics |-> sent]
              ELSE collectLoopCh(target, cmds, k + 1,
                                 Append(sent \o r.metrics,
                                        markCollectorUp(collector, r.up, target)))
          run(collector) ==
              CASE collector = ipmimonitoring -> collectMonitoringCh(target, cmds[k])
                [] collector = ipmi_dcmi      -> collectDCMICh(target, cmds[k])
                [] collector = ipmi_chassis   -> collectChassisStateCh(target, cmds[k])
                [] OTHER -> [panic |-> FALSE, up |-> 0, metrics |-> <<>>]
      IN  entry(config.Global.Collector[k], run(config.Global.Collector[k]))

\* IpmiCollect(ch, target): everything one call sends on ch
IpmiCollectCh(target, cmds) ==
    collectLoopCh(target, cmds, 1,
                  <<MustNewConstMetric("durationDesc", Float(0), <<target.Host>>)>>)

\* the collector lists the on-demand build is configured with
OnDemandCollector ==
    {<<ipmimonitoring, ipmi_dcmi, ipmi_chassis>>,
     <<ipmi_dcmi, ipmimonitoring>>,
     <<ipmi_chassis, bogus>>}

\* what the files the on-demand sub-collectors read hold at some moment
OnDemandResults(collector) ==
    CASE collector = ipmimonitoring -> {CmdFail, CmdOut(MonFan), CmdOut(MonShortRow)}
      [] collector = ipmi_dcmi      -> {CmdFail, CmdOut(DcmiGood)}
      [] collector = ipmi_chassis   -> {CmdOut(ChassisNoDrive)}
      [] OTHER -> {CmdFail}

RECURSIVE OnDemandCmdsOf(_)
OnDemandCmdsOf(list) ==
    IF list = <<>> THEN {<<>>}
    ELSE {<<x>> \o rest : x \in OnDemandResults(Head(list)),
                          rest \in OnDemandCmdsOf(Tail(list))}

OnDemandCmds == OnDemandCmdsOf(config.Global.Collector)

InitOnDemand ==
    /\ \E n \in 0..MaxTargets, q \in OnDemandCollector :
          config = [Global  |-> [Collector |-> q],
                    Targets |-> [i \in 1..n |-> Target(i)]]
    /\ flushSrc = "locked"
    /\ lockIs = "gRWLock"
    /\ boot = "ok"
    /\ InitEngine

\* a panic in Collect ends the process
Crashed == \E r \in Readers : served[r].pc = "panicked"

onDemandVars == <<config, flushSrc, lockIs, call, parsed, boot, reload, metrics, mutex, committed,
                  allowed, wrote, flushVars, scrapeVars>>

\* remoteIPMIHandler whose registry is the one of the handler's last request
remoteIPMIHandlerShared(r) ==
    /\ ~Crashed
    /\ served[r].pc = "idle"
    /\ served' = [served EXCEPT ![r] = [pc |-> "collect", k |-> 1, read |-> <<>>,
                                        ch |-> served[r].ch]]
    /\ UNCHANGED onDemandVars

\* remoteIPMIHandler: a request arrives, the handler makes a registry and a
\* collector of its own and has them gathered
remoteIPMIHandler(r) ==
    /\ ~Crashed
    /\ served[r].pc = "idle"
    /\ served' = [served EXCEPT ![r] = [pc |-> "collect", k |-> 1, read |-> <<>>,
                                        ch |-> <<>>]]
    /\ UNCHANGED onDemandVars

\* one iteration of the loop of Collect: IpmiCollect(ch, target) for the next
\* target, the files holding cmds while it runs
collectTarget(r) ==
    /\ ~Crashed
    /\ served[r].pc = "collect"
    /\ served[r].k <= Len(config.Targets)
    /\ \E cmds \in OnDemandCmds :
          LET sends(res) ==
                  served' = [served EXCEPT
                               ![r].pc   = IF res.panic THEN "panicked" ELSE "collect",
                               ![r].k    = @ + 1,
                               ![r].read = Append(@, cmds),
                               ![r].ch   = @ \o res.metrics]
          IN  sends(IpmiCollectCh(config.Targets[served[r].k], cmds))
    /\ UNCHANGED onDemandVars

\* Collect has returned: the response is written from what was sent on ch
serveHTTP(r) ==
    /\ ~Crashed
    /\ served[r].pc = "collect"
    /\ served[r].k > Len(config.Targets)
    /\ served' = [served EXCEPT ![r].pc = "responded"]
    /\ UNCHANGED onDemandVars

\* the handler returns and is free for the next request
handlerReturn(r) ==
    /\ ~Crashed
    /\ served[r].pc = "responded"
    /\ served' = [served EXCEPT ![r].pc = "idle"]
    /\ UNCHANGED onDemandVars

NextOnDemand ==
    \/ \E r \in Readers : remoteIPMIHandler(r)
    \/ \E r \in Readers : collectTarget(r)
    \/ \E r \in Readers : serveHTTP(r)
    \/ \E r \in Readers : handlerReturn(r)

SpecOnDemand == InitOnDemand /\ [][NextOnDemand]_vars

\* what a pass over the first n targets sends when target i's files hold read[i]
RECURSIVE PassOver(_, _)
PassOver(read, n) ==
    IF n = 0 THEN <<>>
    ELSE PassOver(read, n - 1) \o IpmiCollectCh(config.Targets[n], read[n]).metrics

\* C12: a response of the on-demand build is produced after one pass over every
\* configured target and holds, target by target in configured order, what
\* that pass collected in this request, and nothing of an earlier request.
C12_OnDemandPassPerRequest ==
    \A r \in Readers :
       served[r].pc = "responded" =>
          /\ Len(served[r].read) = Len(config.Targets)
          /\ served[r].ch = PassOver(served[r].read, Len(config.Targets))
          /\ \A i \in 1..Len(config.Targets) :
                Cardinality({j \in OfFamily(served[r].ch, "durationDesc") :
                               served[r].ch[j].labels = <<config.Targets[i].Host>>}) = 1

\* a request over two targets is answered, the files differing between the
\* two calls of IpmiCollect
C12_Witness ==
    \E r \in Readers :
       /\ served[r].pc = "responded"
       /\ Len(config.Targets) = 2
       /\ served[r].read[1] # served[r].read[2]
       /\ \E j \in 1..Len(served[r].ch) : served[r].ch[j].desc = "chassisPowerState"

\* ------------------------------------------------- the description phase

\* Describe: the descriptors it sends on its channel, in order
Describe ==
    <<"sensorStateDesc", "sensorValueDesc", "fanSpeedDesc", "temperatureDesc",
      "powerConsumption", "upDesc", "durationDesc">>

Described == {Describe[i] : i \in 1..Len(Describe)}

\* C13: the family of every observation IpmiCollect returns is among the
\* families Describe sends.
C13_DescribeCoversCollect ==
    call.phase = "returned" =>
       \A k \in 1..Len(call.ret) :
          WellFormed(call.ret[k]) => call.ret[k].desc \in Described

\* ------------------------------------- the parsers, called on their own

\* the longest table, name and command output the parsers are called with
MaxRows == 3

MaxName == 4

MaxLines == 2

\* the longest a sub-collector runs, in seconds
MaxElapsed == 2

Bar == <<" ", "|", " ">>

\* one line of ipmimonitoring output: the row a descriptor
\* [id, name, state, value, unit] stands for; short marks a line of one field
MonRow(d) ==
    IF d.short THEN d.id \o <<"\n">>
    ELSE d.id \o Bar \o d.name \o Bar \o <<"T", "y">> \o Bar \o d.state \o Bar
         \o d.value \o Bar \o d.unit \o Bar \o <<"'", "O", "K", "'">> \o <<"\n">>

RECURSIVE MonText(_)
MonText(rows) ==
    IF rows = <<>> THEN <<>> ELSE MonRow(Head(rows)) \o MonText(Tail(rows))

Row(id, name, state, value, unit) ==
    [short |-> FALSE, id |-> id, name |-> name, state |-> state, value |-> value,
     unit |-> unit]

Nominal == <<"N", "o", "m", "i", "n", "a", "l">>

NA == <<"N", "/", "A">>

SensorStates ==
    {Nominal, <<"W", "a", "r", "n", "i", "n", "g">>,
     <<"C", "r", "i", "t", "i", "c", "a", "l">>, NA, <<"O", "d", "d">>,
     <<"n", "o", "m", "i", "n", "a", "l">>, <<>>}

SensorUnits ==
    {<<"R", "P", "M">>, <<"C">>, <<"A">>, <<"V">>, <<"W">>, NA, <<"r", "p", "m">>,
     <<"R", "P", "M", "s">>, <<"%">>, <<>>}

\* rows of every kind: two well-formed readings, one with a value that is no
\* number, a header, a footer and a row with an id and nothing else
GoodRow == Row(<<"7">>, <<"F", "a", "n", " ", "1">>, Nominal,
               <<"3", "2", "0", "0", ".", "0", "0">>, <<"R", "P", "M">>)

NARow == Row(<<"1", "2">>, <<"P", "S", "U">>, NA, NA, NA)

BadValueRow == Row(<<"8">>, <<"F", "a", "n", " ", "2">>, Nominal, <<"3", "x">>,
                   <<"R", "P", "M">>)

HeaderRow == Row(<<"I", "D">>, <<"N", "a", "m", "e">>, <<"S", "t", "a", "t", "e">>,
                 <<"R", "e", "a", "d", "i", "n", "g">>, <<"U", "n", "i", "t", "s">>)

FooterRow ==
    [short |-> TRUE, id |-> <<"e", "n", "d">>, name |-> <<>>, state |-> <<>>,
     value |-> <<>>, unit |-> <<>>]

\* a row cut off after its id
CutRow ==
    [short |-> TRUE, id |-> <<"3">>, name |-> <<>>, state |-> <<>>,
     value |-> <<>>, unit |-> <<>>]

RowKinds == {GoodRow, NARow, BadValueRow, HeaderRow, FooterRow, CutRow}

Tables == SeqsUpTo(RowKinds, MaxRows)

\* one-row tables over every state and unit
ClassTables ==
    {<<Row(<<"9">>, <<"S", "1">>, s, <<"4", "2">>, u)>> :
        s \in SensorStates, u \in SensorUnits}

\* one-row tables over every short name
NameChars == {"a", "-", " ", "/"}

NameTables ==
    {<<Row(<<"9">>, n, Nominal, NA, <<"C">>)>> : n \in SeqsUpTo(NameChars, MaxName)}

parseVars == <<config, flushSrc, lockIs, call, served, boot, reload, metrics, mutex, committed,
               allowed, wrote, flushVars, scrapeVars>>

\* splitMonitoringOutput is called with the text of a table
callSplitMonitoringOutput ==
    /\ parsed.phase = "none"
    /\ \E rows \in Tables \cup NameTables :
          LET ends(r) ==
                  parsed' = [phase |-> IF r.panic THEN "panicked" ELSE "returned",
                             fn    |-> "splitMonitoringOutput",
                             rows  |-> rows,
                             ret   |-> r]
          IN  ends(splitMonitoringOutput(MonText(rows)))
    /\ UNCHANGED parseVars

\* the states collectMonitoring logs as unknown, in order, when the command
\* prints output
monitoringLog(output) ==
    LET unknown(r) ==
            IF r.panic \/ r.err THEN <<>>
            ELSE SelectSeq([i \in 1..Len(r.result) |-> r.result[i].State], unknownState)
    IN  unknown(splitMonitoringOutput(output))

\* collectMonitoring is called, ipmimonitoring printing the text of a table
callCollectMonitoring ==
    /\ parsed.phase = "none"
    /\ \E rows \in Tables \cup ClassTables :
          LET ends(r) ==
                  parsed' = [phase |-> IF r.panic THEN "panicked" ELSE "returned",
                             fn    |-> "collectMonitoring",
                             rows  |-> rows,
                             log   |-> monitoringLog(MonText(rows)),
                             ret   |-> r]
          IN  ends(collectMonitoring(Target(1), CmdOut(MonText(rows))))
    /\ UNCHANGED parseVars

\* the lines of command output the extraction is called on: the text, the
\* pattern it is written to match, and the text its value group is to capture
Watts == <<" ", "W", "a", "t", "t", "s">>

Colon == <<" ", ":", " ">>

Words ==
    {<<"o", "n">>, <<"f", "a", "l", "s", "e">>, <<"o", "f", "f">>, <<"t", "r", "u", "e">>,
     <<"O", "N">>, <<" ", "o", "n">>, <<>>}

Lines ==
    {[text  |-> ipmiDCMICurrentPowerRegex.label \o Colon \o n \o Watts,
      hit   |-> "dcmi",
      value |-> n] : n \in {<<"1", "4", "5">>, <<"9", "8", ".", "5">>, <<>>}}
    \cup
    {[text  |-> ipmiChassisPowerRegex.label \o Colon \o w,
      hit   |-> "power",
      value |-> w] : w \in Words}
    \cup
    {[text  |-> ipmiChassisDriveRegex.label \o Colon \o w,
      hit   |-> "drive",
      value |-> w] : w \in {<<"f", "a", "l", "s", "e">>, <<"t", "r", "u", "e">>}}
    \cup
    {[text  |-> t, hit |-> "none", value |-> <<>>] :
        t \in {<<" ">> \o ipmiDCMICurrentPowerRegex.label \o Colon \o <<"7">> \o Watts,
               ipmiDCMICurrentPowerRegex.label \o Colon \o <<"7", " ", "k", "W">>,
               <<"M", "i", "n">> \o Colon \o <<"2">> \o Watts,
               ipmiChassisPowerRegex.label \o <<" ", ":", "o", "n">>}}

Outputs == SeqsUpTo(Lines, MaxLines)

RECURSIVE OutputText(_)
OutputText(lines) ==
    IF lines = <<>> THEN <<>>
    ELSE Head(lines).text \o <<"\n">> \o OutputText(Tail(lines))

Regs ==
    [dcmi  |-> ipmiDCMICurrentPowerRegex,
     power |-> ipmiChassisPowerRegex,
     drive |-> ipmiChassisDriveRegex]

\* getValue is called with some output and one of the patterns
callGetValue ==
    /\ parsed.phase = "none"
    /\ \E lines \in Outputs, reg \in DOMAIN Regs :
          parsed' = [phase |-> "returned",
                     fn    |-> "getValue",
                     lines |-> lines,
                     reg   |-> reg,
                     ret   |-> getValue(OutputText(lines), Regs[reg])]
    /\ UNCHANGED parseVars

\* getChassis is called with some output and one of the chassis patterns
callGetChassis ==
    /\ parsed.phase = "none"
    /\ \E lines \in Outputs, reg \in {"power", "drive"} :
          parsed' = [phase |-> "returned",
                     fn    |-> "getChassis",
                     lines |-> lines,
                     reg   |-> reg,
                     ret   |-> getChassis(OutputText(lines), Regs[reg])]
    /\ UNCHANGED parseVars

\* collectChassisState is called, ipmi-chassis printing some output
callCollectChassisState ==
    /\ parsed.phase = "none"
    /\ \E lines \in Outputs :
          parsed' = [phase |-> "returned",
                     fn    |-> "collectChassisState",
                     lines |-> lines,
                     ret   |-> collectChassisState(Target(1), CmdOut(OutputText(lines)))]
    /\ UNCHANGED parseVars

\* IpmiCollect is called on a target whose commands answer cmds, the
\* sub-collector of entry k running for took[k] seconds
callIpmiCollect ==
    /\ parsed.phase = "none"
    /\ \E cmds \in AllCmds, took \in [1..Len(config.Global.Collector) -> 0..MaxElapsed] :
          LET ends(r) ==
                  parsed' = [phase |-> IF r.panic THEN "panicked" ELSE "returned",
                             fn    |-> "IpmiCollect",
                             cmds  |-> cmds,
                             took  |-> took,
                             ret   |-> r.metrics]
          IN  ends(IpmiCollect(Target(1), cmds))
    /\ UNCHANGED parseVars

\* the caller has taken the result
parseReturn ==
    /\ parsed.phase = "returned"
    /\ parsed' = NoCall
    /\ UNCHANGED parseVars

NextParse ==
    \/ callSplitMonitoringOutput
    \/ callCollectMonitoring
    \/ callGetValue
    \/ callGetChassis
    \/ callCollectChassisState
    \/ callIpmiCollect
    \/ parseReturn

InitParse ==
    /\ config = [Global  |-> [Collector |-> CadenceCollector],
                 Targets |-> <<Target(1)>>]
    /\ flushSrc = "locked"
    /\ lockIs = "gRWLock"
    /\ boot = "ok"
    /\ InitEngine

SpecParse == InitParse /\ [][NextParse]_vars

\* the rows of a table whose field 0 is an integer
IntRows(rows) == SelectSeq(rows, LAMBDA d : d.id # <<>> /\ AllDigits(d.id))

\* C14: when every row with an integer id is well formed, splitMonitoringOutput
\* returns the readings of exactly those rows, in order, and a nil error,
\* wherever the other rows stand.
C14_NonIntegerRowSkipped ==
    (/\ parsed.phase = "returned"
     /\ parsed.fn = "splitMonitoringOutput"
     /\ \A i \in 1..Len(parsed.rows) : parsed.rows[i] # BadValueRow)
    => LET ints == IntRows(parsed.rows)
       IN  /\ ~parsed.ret.err
           /\ Len(parsed.ret.result) = Len(ints)
           /\ \A i \in 1..Len(ints) :
                 /\ FormatInt(parsed.ret.result[i].ID) = ints[i].id
                 /\ parsed.ret.result[i].State = ints[i].state

\* C15: a row with an integer id whose value is neither N/A nor a number makes
\* collectMonitoring report 0 and return no observation, whatever the rows
\* before it.
C15_BadValueFailsWholeInput ==
    (/\ parsed.phase = "returned"
     /\ parsed.fn = "collectMonitoring"
     /\ \E i \in 1..Len(parsed.rows) : parsed.rows[i] = BadValueRow)
    => /\ parsed.ret.up = 0
       /\ parsed.ret.metrics = <<>>

\* the bad row comes after a well-formed one
C15_Witness ==
    /\ parsed.phase = "returned"
    /\ parsed.fn = "collectMonitoring"
    /\ Len(parsed.rows) >= 2
    /\ parsed.rows[1] = GoodRow
    /\ parsed.rows[2] = BadValueRow

\* the family pair the claim gives a unit: value family, state family
FamilyPair(unit) ==
    CASE unit = <<"R", "P", "M">> -> <<"fanSpeedDesc", "fanSpeedStateDesc">>
      [] unit = <<"C">>           -> <<"temperatureDesc", "temperatureStateDesc">>
      [] unit = <<"A">>           -> <<"currentDesc", "currentStateDesc">>
      [] unit = <<"V">>           -> <<"voltageDesc", "voltageStateDesc">>
      [] unit = <<"W">>           -> <<"powerDesc", "powerStateDesc">>
      [] OTHER                    -> <<"sensorValueDesc", "sensorStateDesc">>

TypedUnits == {<<"R", "P", "M">>, <<"C">>, <<"A">>, <<"V">>, <<"W">>}

\* C16: collectMonitoring turns every reading into two observations, a value
\* and a state, of the typed pair of its unit with labels (id, name, host), or
\* of the generic pair with labels (id, name, type, host) for any other unit.
C16_TwoObservationsPerReading ==
    (/\ parsed.phase = "returned"
     /\ parsed.fn = "collectMonitoring"
     /\ parsed.ret.up = 1)
    => LET ints == IntRows(parsed.rows)
           ms   == parsed.ret.metrics
       IN  /\ Len(ms) = 2 * Len(ints)
           /\ \A i \in 1..Len(ints) :
                 /\ <<ms[2 * i - 1].desc, ms[2 * i].desc>> = FamilyPair(ints[i].unit)
                 /\ ms[2 * i - 1].labels = ms[2 * i].labels
                 /\ ms[2 * i].labels[1] = ints[i].id
                 /\ IF ints[i].unit \in TypedUnits
                    THEN /\ Len(ms[2 * i].labels) = 3
                         /\ ms[2 * i].labels[3] = Target(1).Host
                    ELSE /\ Len(ms[2 * i].labels) = 4
                         /\ ms[2 * i].labels[3] = <<"T", "y">>
                         /\ ms[2 * i].labels[4] = Target(1).Host

\* a table with a typed reading and a generic one has been classified
C16_Witness ==
    /\ parsed.phase = "returned"
    /\ parsed.fn = "collectMonitoring"
    /\ parsed.ret.up = 1
    /\ parsed.rows = <<GoodRow, NARow>>
    /\ Len(parsed.ret.metrics) = 4

\* the severity the claim gives a state
Severity(state) ==
    CASE state = Nominal -> Float(0)
      [] state = <<"W", "a", "r", "n", "i", "n", "g">> -> Float(1)
      [] state = <<"C", "r", "i", "t", "i", "c", "a", "l">> -> Float(2)
      [] OTHER -> NaN

KnownStates ==
    {Nominal, <<"W", "a", "r", "n", "i", "n", "g">>,
     <<"C", "r", "i", "t", "i", "c", "a", "l">>, NA}

\* C17: over tables of well-formed rows collectMonitoring reports 1 whatever
\* the states are; the state observation of a reading is 0, 1, 2 for Nominal,
\* Warning, Critical and not-a-number for every other state, and exactly the
\* states other than these and N/A are logged.
C17_SeverityTotal ==
    (/\ parsed.phase = "returned"
     /\ parsed.fn = "collectMonitoring"
     /\ \A i \in 1..Len(parsed.rows) :
           ~parsed.rows[i].short /\ parsed.rows[i] \notin {BadValueRow, HeaderRow})
    => LET ms == parsed.ret.metrics
       IN  /\ parsed.ret.up = 1
           /\ Len(ms) = 2 * Len(parsed.rows)
           /\ \A i \in 1..Len(parsed.rows) :
                 ms[2 * i].value = Severity(parsed.rows[i].state)
           /\ parsed.log = SelectSeq([i \in 1..Len(parsed.rows) |-> parsed.rows[i].state],
                                     LAMBDA st : st \notin KnownStates)

\* a reading with a state outside the four known ones has been classified
C17_Witness ==
    /\ parsed.phase = "returned"
    /\ parsed.fn = "collectMonitoring"
    /\ Len(parsed.rows) = 1
    /\ parsed.rows[1].state = <<"O", "d", "d">>
    /\ parsed.ret.up = 1
    /\ parsed.log = <<(<<"O", "d", "d">>)>>

\* the name the claim gives field 1: underscores for spaces and no slashes
\* when it has more than one word, then the prefix rule on the third character
ClaimedName(field) ==
    LET prefix(name) ==
            IF Len(name) >= 3 /\ name[3] = "-"
            THEN ReplaceAll(SubSeq(name, 4, Len(name)), "-", <<"_">>)
            ELSE name
    IN  prefix(IF FieldsCount(field) > 1
               THEN ReplaceAll(ReplaceAll(field, " ", <<"_">>), "/", <<>>)
               ELSE field)

\* C18: the name of a reading is field 1 with spaces turned into underscores
\* and slashes removed when it has more than one word, and then without its
\* first three characters and with underscores for hyphens exactly when its
\* third character is a hyphen.
C18_NameNormalised ==
    (/\ parsed.phase = "returned"
     /\ parsed.fn = "splitMonitoringOutput"
     /\ parsed.rows \in NameTables)
    => /\ Len(parsed.ret.result) = 1
       /\ parsed.ret.result[1].Name = ClaimedName(Trim(parsed.rows[1].name, " "))

\* the lines of an output written to match pattern reg, by position
Hits(lines, reg) == {i \in 1..Len(lines) : lines[i].hit = reg}

FirstHit(lines, reg) == CHOOSE i \in Hits(lines, reg) : \A j \in Hits(lines, reg) : i <= j

\* C19: getValue returns the captured text of the first line that matches the
\* pattern, whatever lines follow, and fails exactly when no line matches.
C19_FirstMatchWins ==
    (parsed.phase = "returned" /\ parsed.fn = "getValue")
    => IF Hits(parsed.lines, parsed.reg) = {}
       THEN parsed.ret.err
       ELSE /\ ~parsed.ret.err
            /\ parsed.ret.value = parsed.lines[FirstHit(parsed.lines, parsed.reg)].value

\* two lines match and capture different texts
C19_Witness ==
    /\ parsed.phase = "returned"
    /\ parsed.fn = "getValue"
    /\ Cardinality(Hits(parsed.lines, parsed.reg)) = 2
    /\ parsed.lines[1].value # parsed.lines[2].value
    /\ parsed.ret.value = parsed.lines[1].value

\* the observations of one family among ms
Family(ms, desc) == SelectSeq(ms, LAMBDA m : m.desc = desc)

\* C20: getChassis gives 1 exactly when the text captured from the first
\* matching line is on or false and 0 for any other captured text; with no
\* matching line it fails, and collectChassisState then sends no observation
\* of that reading.
C20_ChassisFlag ==
    /\ (parsed.phase = "returned" /\ parsed.fn = "getChassis")
       => IF Hits(parsed.lines, parsed.reg) = {}
          THEN parsed.ret.err
          ELSE /\ ~parsed.ret.err
               /\ parsed.ret.v =
                     IF parsed.lines[FirstHit(parsed.lines, parsed.reg)].value
                           \in {<<"o", "n">>, <<"f", "a", "l", "s", "e">>}
                     THEN Float(1) ELSE Float(0)
    /\ (parsed.phase = "returned" /\ parsed.fn = "collectChassisState")
       => /\ Hits(parsed.lines, "power") = {}
             => Family(parsed.ret.metrics, "chassisPowerState") = <<>>
          /\ Hits(parsed.lines, "drive") = {}
             => Family(parsed.ret.metrics, "chassisDriveFault") = <<>>
          /\ Hits(parsed.lines, "power") # {}
             => /\ Len(Family(parsed.ret.metrics, "chassisPowerState")) = 1
                /\ Family(parsed.ret.metrics, "chassisPowerState")[1].value
                      \in {Float(0), Float(1)}

\* the word false, captured from the first of two matching lines, is read as 1
C20_Witness ==
    /\ parsed.phase = "returned"
    /\ parsed.fn = "getChassis"
    /\ parsed.reg = "drive"
    /\ Cardinality(Hits(parsed.lines, "drive")) = 2
    /\ parsed.lines[1].value = <<"f", "a", "l", "s", "e">>
    /\ parsed.lines[2].value = <<"t", "r", "u", "e">>
    /\ parsed.ret.v = Float(1)

\* ------------------------------------------------------------- startup

\* C22: when the configuration could not be loaded at startup no cycle runs
\* and no scrape is served.
C22_LoadFailureFatal ==
    boot = "failed" =>
       /\ fired = 0
       /\ \A r \in Readers : rpc[r] = "idle"

\* ------------------------------------------------ the reload endpoint

\* sc.ReloadConfig(configFile): it returns an error (TRUE) or nil (FALSE)
ReloadConfig == {TRUE, FALSE}

\* the methods of the requests sent to /-/reload
Methods == {"POST", "GET", "PUT"}

reloadVars == <<config, flushSrc, lockIs, call, served, parsed, boot, metrics, mutex,
                committed, allowed, wrote, flushVars, scrapeVars>>

\* main: a configuration that does not load ends the process with log.Fatalf;
\* otherwise the reload goroutine is started
InitReload ==
    /\ boot \in {"ok", "exited"}
    /\ config = ZeroConfig
    /\ flushSrc = "locked"
    /\ lockIs = "gRWLock"
    /\ InitEngine

\* updateConfiguration that takes every method for a POST
updateConfigurationAny(h, method) ==
    /\ boot = "ok"
    /\ reload.post[h].pc \in {"idle", "done"}
    /\ reload' = [reload EXCEPT !.post[h] =
                     [pc |-> "send", method |-> method, status |-> 0,
                      n |-> 0, replies |-> 0, rerr |-> FALSE]]
    /\ UNCHANGED reloadVars

\* updateConfiguration is entered for a request: a POST makes its channel rc
\* and goes on to send it on reloadCh, any other method is answered with 405
updateConfiguration(h, method) ==
    /\ boot = "ok"
    /\ reload.post[h].pc \in {"idle", "done"}
    /\ reload' = [reload EXCEPT !.post[h] =
                     IF method = "POST"
                     THEN [pc |-> "send", method |-> method, status |-> 0,
                           n |-> 0, replies |-> 0, rerr |-> FALSE]
                     ELSE [pc |-> "done", method |-> method, status |-> 405,
                           n |-> 0, replies |-> 0, rerr |-> FALSE]]
    /\ UNCHANGED reloadVars

\* reloadCh <- rc in the handler meets case rc := <-reloadCh in the goroutine
postSend(h) ==
    /\ reload.post[h].pc = "send"
    /\ reload.gpc = "select"
    /\ reload' = [reload EXCEPT !.post[h].pc = "recv", !.gpc = "req", !.rc = h]
    /\ UNCHANGED reloadVars

\* the goroutine reloads for the request whose channel it took
reloadForRequest ==
    /\ reload.gpc = "req"
    /\ \E err \in ReloadConfig :
          reload' = [reload EXCEPT !.gpc = "reply", !.err = err,
                                   !.post[reload.rc].n = @ + 1,
                                   !.post[reload.rc].rerr = err]
    /\ UNCHANGED reloadVars

\* the goroutine that sends on rc only when the reload failed
reloadReplyErrOnly(h) ==
    /\ reload.gpc = "reply"
    /\ reload.rc = h
    /\ IF reload.err
       THEN /\ reload.post[h].pc = "recv"
            /\ reload' = [reload EXCEPT !.gpc = "select", !.rc = 0,
                                        !.post[h].pc = "done",
                                        !.post[h].replies = @ + 1,
                                        !.post[h].status = 500]
       ELSE reload' = [reload EXCEPT !.gpc = "select", !.rc = 0]
    /\ UNCHANGED reloadVars

\* rc <- err (or rc <- nil) in the goroutine meets <-rc in the handler, which
\* answers 500 for an error and returns; with no error it writes nothing and
\* the response has status 200
reloadReply(h) ==
    /\ reload.gpc = "reply"
    /\ reload.rc = h
    /\ reload.post[h].pc = "recv"
    /\ reload' = [reload EXCEPT !.gpc = "select", !.rc = 0,
                                !.post[h].pc = "done",
                                !.post[h].replies = @ + 1,
                                !.post[h].status = IF reload.err THEN 500 ELSE 200]
    /\ UNCHANGED reloadVars

\* SIGHUP: signal.Notify hands the signal to hup only if the goroutine waits
\* in its select at that moment (hup has no buffer); it is dropped otherwise
sighup ==
    /\ boot = "ok"
    /\ reload.gpc = "select"
    /\ reload' = [reload EXCEPT !.gpc = "hup"]
    /\ UNCHANGED reloadVars

\* the goroutine reloads for the signal and logs an error
reloadForSignal ==
    /\ reload.gpc = "hup"
    /\ \E err \in ReloadConfig :
          reload' = [reload EXCEPT !.gpc = "select", !.err = err]
    /\ UNCHANGED reloadVars

NextReload ==
    \/ \E h \in Posts, method \in Methods : updateConfiguration(h, method)
    \/ \E h \in Posts : postSend(h)
    \/ reloadForRequest
    \/ \E h \in Posts : reloadReply(h)
    \/ sighup
    \/ reloadForSignal

SpecReload == InitReload /\ [][NextReload]_vars

\* C21: a request to the reload endpoint that is no POST is answered 405 and
\* triggers no reload; a POST triggers exactly one reload and is answered 500
\* exactly when that reload reported an error.
C21_ReloadStatus ==
    \A h \in Posts :
       reload.post[h].pc = "done" =>
          IF reload.post[h].method = "POST"
          THEN /\ reload.post[h].n = 1
               /\ reload.post[h].status = 500 <=> reload.post[h].rerr
          ELSE /\ reload.post[h].n = 0
               /\ reload.post[h].status = 405

\* one POST was answered 500 and a GET 405
C21_Witness ==
    \E h, g \in Posts :
       /\ reload.post[h].pc = "done"
       /\ reload.post[h].method = "POST"
       /\ reload.post[h].status = 500
       /\ reload.post[g].pc = "done"
       /\ reload.post[g].method = "GET"

\* ------------------------------------------- more on IpmiCollect's list

\* the metric families a sub-collector emits
FamiliesOf(collector) ==
    CASE collector = ipmimonitoring ->
           {"sensorStateDesc", "sensorValueDesc", "fanSpeedDesc", "fanSpeedStateDesc",
            "temperatureDesc", "temperatureStateDesc", "voltageDesc", "voltageStateDesc",
            "currentDesc", "currentStateDesc", "powerDesc", "powerStateDesc"}
      [] collector = ipmi_dcmi -> {"powerConsumption"}
      [] collector = ipmi_chassis ->
           {"chassisPowerState", "chassisDriveFault", "chassisCoolingFault"}
      [] OTHER -> {}

\* C23: the list IpmiCollect returns is, after the duration, one part per entry
\* of the collector list in the order of the list: what the sub-collector of
\* entry k returned, then the availability of entry k.
C23_CollectorsInListOrder ==
    call.phase = "returned" =>
      LET list == config.Global.Collector
          segs == Segments(Tail(call.ret))
      IN  /\ Len(segs) = Len(list)
          /\ \A k \in 1..Len(list) :
                /\ segs[k][Len(segs[k])].labels = <<list[k], call.target.Host>>
                /\ SubSeq(segs[k], 1, Len(segs[k]) - 1) =
                      runCollector(list[k], call.target, call.cmds[k]).metrics
                /\ \A j \in 1..(Len(segs[k]) - 1) :
                      segs[k][j].desc \in FamiliesOf(list[k]) \cup {"nil"}

\* two different sub-collectors have both contributed observations
C23_Witness ==
    /\ call.phase = "returned"
    /\ config.Global.Collector = <<ipmi_chassis, ipmimonitoring>>
    /\ Len(call.ret) >= 6
    /\ call.ret[2].desc = "chassisPowerState"
    /\ call.ret[Len(call.ret) - 1].desc \in FamiliesOf(ipmimonitoring)

RECURSIVE SumSeq(_)
SumSeq(q) == IF q = <<>> THEN 0 ELSE Head(q) + SumSeq(Tail(q))

\* C24: the scrape-duration observation of a target is no less than the time
\* its sub-collectors ran.
C24_DurationCoversCollectors ==
    (parsed.phase = "returned" /\ parsed.fn = "IpmiCollect")
    => /\ parsed.ret[1].desc = "durationDesc"
       /\ ~parsed.ret[1].value.nan
       /\ parsed.ret[1].value.mant >= SumSeq(parsed.took)

\* C25: the list IpmiCollect returns holds no absent entry, whatever
\* sub-collectors failed.
C25_NoNilInList ==
    call.phase = "returned" =>
       \A k \in 1..Len(call.ret) : call.ret[k] # NilMetric

\* the parts of the list of a call, one per entry of the collector list
CallSegments == Segments(Tail(call.ret))

\* C26: a sub-collector whose availability is 0 has no observation of its
\* families in the list.
C26_FailedContributesNothing ==
    call.phase = "returned" =>
       \A k \in 1..Len(CallSegments) :
          CallSegments[k][Len(CallSegments[k])].value = Float(0)
          => \A j \in 1..(Len(CallSegments[k]) - 1) :
                CallSegments[k][j].desc \notin FamiliesOf(config.Global.Collector[k])

\* the chassis families a failed ipmi-chassis run has extracted before the
\* extraction that failed
ExtractedBefore(cmd) ==
    IF cmd.err \/ getChassis(cmd.out, ipmiChassisPowerRegex).err THEN <<>>
    ELSE IF getChassis(cmd.out, ipmiChassisDriveRegex).err THEN <<"chassisPowerState">>
    ELSE <<"chassisPowerState", "chassisDriveFault">>

\* C26 (amended): a sub-collector whose availability is 0 has no observation
\* of its families in the list, but for ipmi-chassis, which contributes the
\* observations it extracted before the extraction that failed: none, the
\* power state, or the power state and the drive fault.
C26_FailedContributesPrefix ==
    call.phase = "returned" =>
       \A k \in 1..Len(CallSegments) :
          CallSegments[k][Len(CallSegments[k])].value = Float(0)
          => IF config.Global.Collector[k] = ipmi_chassis
             THEN [j \in 1..(Len(CallSegments[k]) - 1) |-> CallSegments[k][j].desc]
                     = ExtractedBefore(call.cmds[k])
             ELSE \A j \in 1..(Len(CallSegments[k]) - 1) :
                     CallSegments[k][j].desc \notin FamiliesOf(config.Global.Collector[k])

\* ipmi-chassis failed on the cooling fault after two extractions
C26_Witness ==
    /\ call.phase = "returned"
    /\ config.Global.Collector = <<ipmi_chassis>>
    /\ Len(call.ret) = 4
    /\ call.ret[3].desc = "chassisDriveFault"
    /\ call.ret[4].value = Float(0)

\* ------------------------------------------- identity of the cached observations

\* two entries of a list that are observations of one family with one label set
SameIdentity(list, i, j) ==
    /\ i # j
    /\ list[i] # NilMetric
    /\ list[i].desc = list[j].desc
    /\ list[i].labels = list[j].labels

\* C27: with distinct target hosts, collector names and sensor ids, no two
\* observations in the cache have the same metric family and the same label
\* values, whatever cycles have run and however they overlapped.
C27_CacheIdentityUnique ==
    \A i, j \in 1..Len(metrics) : ~SameIdentity(metrics, i, j)

\* ------------------------------------------------ the reload handshake

\* the reload goroutine runs whenever it can: a started ReloadConfig returns,
\* and a reply whose receiver waits is delivered
FairnessReload ==
    /\ WF_vars(reloadForRequest)
    /\ WF_vars(reloadForSignal)
    /\ \A h \in Posts : WF_vars(reloadReply(h))

FairSpecReload == InitReload /\ [][NextReload]_vars /\ FairnessReload

\* C28: every POST that handed its reply channel to the reload goroutine
\* receives exactly one reply and then returns; the goroutine serves one
\* trigger at a time, the handler of the request it serves waits for the
\* reply, and the goroutine always comes back to its select.
C28_ReloadHandshake ==
    /\ [](\A h \in Posts :
            /\ reload.post[h].replies <= 1
            /\ reload.post[h].pc = "recv" => reload.post[h].replies = 0
            /\ (reload.post[h].pc = "done" /\ reload.post[h].method = "POST")
                  => reload.post[h].replies = 1)
    /\ [](reload.gpc \in {"req", "reply"} =>
            /\ reload.rc \in Posts
            /\ reload.post[reload.rc].pc = "recv"
            /\ \A g \in Posts \ {reload.rc} : reload.post[g].pc # "recv")
    /\ \A h \in Posts : (reload.post[h].pc = "recv") ~> (reload.post[h].pc = "done")
    /\ (reload.gpc # "select") ~> (reload.gpc = "select")

\* one POST has got its reply and returned, the goroutine is about to reply
\* to a second one
C28_Witness ==
    /\ reload.post[1].pc = "done"
    /\ reload.post[1].replies = 1
    /\ reload.post[2].pc = "recv"
    /\ reload.gpc = "reply"

\* ------------------------------------------- rows with too few fields

\* C29: splitMonitoringOutput ends with a list of readings or an error for
\* every tool output, a row with an integer id and fewer than 7 fields
\* included; it never aborts.
C29_SplitAlwaysReturns ==
    parsed.phase # "none" /\ parsed.fn = "splitMonitoringOutput"
       => parsed.phase = "returned"

====
